---- MODULE Spec2Model ----
(***************************************************************************)
(* Duty-cycle scheduling of the ul-temp-sensor firmware: the battery       *)
(* power-tier controller (adaptive_scheduler.c), the tier -> interval      *)
(* lookup, the RV-3028 wake-time programmer (rv3028.c) and the wake loop    *)
(* of main.c that wires them together.                                     *)
(***************************************************************************)
EXTENDS Integers, Sequences, FiniteSets, TLC

VARIABLES
    pc,                 \* position of main_thread (main.c)
    current_tier,       \* static power_tier_t current_tier (adaptive_scheduler.c:10)
    tier_before,        \* current_tier at entry of the latest adaptive_scheduler_get_tier call
    battery_mv,         \* main_thread local battery_mv
    main_current_tier,  \* main_thread local current_tier (the returned tier)
    next_wake_interval, \* main_thread local next_wake_interval
    mv_lo,              \* lowest reading fed to get_tier since the start
    mv_hi,              \* highest reading fed to get_tier since the start
    went_up,            \* some call since the start raised the tier ordinal
    went_down,          \* some call since the start lowered the tier ordinal
    script_pos,         \* how many readings of ReadingScript have been fed, in order, from
                        \* Normal since the start; OffScript once the readings deviate
    tier_log,           \* the starting tier and the tiers returned by the successive
                        \* get_tier calls of a caller that keeps feeding one reading
    regs,               \* the RV-3028 register file, by register address
    current_time,       \* rv3028_set_wakeup_time local: struct rv3028_time current_time
    target_seconds,     \* rv3028_set_wakeup_time local
    alarm,              \* rv3028_set_wakeup_time local: struct rv3028_alarm alarm
    ret,                \* main_thread local ret after adaptive_scheduler_set_next_wake
    wake_log,           \* the bus transactions of the latest adaptive_scheduler_set_next_wake
                        \* call, in order: operation, register addressed, bytes, outcome
    bme_regs,           \* the BME280 register file, by register address
    calib_data,         \* static struct bme280_calib_data calib_data (bme280.c:10)
    calib_load,         \* bme280_init of this boot: its chip-id read (none, failed or
                        \* read), whether it got to the calibration load, the register
                        \* reads of the load that failed, the value the load returned
    sensor_data,        \* main_thread local sensor_data, in the integers of the driver
    forced,             \* what the compensation of this cycle's bme280_read_forced call
                        \* did: the guard reached, var1 there, the divisors of the
                        \* divisions by var1, the humidity's var1 after the clamps
    adv_data_len,       \* static uint8_t adv_data_len (ble_advertiser.c:14)
    radio               \* the advertising state of the Bluetooth controller

tierVars == <<current_tier, tier_before>>
mainVars == <<battery_mv, main_current_tier, next_wake_interval>>
obsVars  == <<mv_lo, mv_hi, went_up, went_down, script_pos, tier_log>>
rtcVars  == <<regs, current_time, target_seconds, alarm, ret, wake_log>>
bmeVars  == <<bme_regs, calib_data, calib_load, sensor_data, forced>>
bleVars  == <<adv_data_len, radio>>
vars     == <<pc, tierVars, mainVars, obsVars, rtcVars, bmeVars, bleVars>>

----------------------------------------------------------------------------
(* adaptive_scheduler.h *)

POWER_TIER_NORMAL   == 0
POWER_TIER_CONSERVE == 1
POWER_TIER_RESERVE  == 2
POWER_TIER_SURVIVAL == 3

PowerTiers == {POWER_TIER_NORMAL, POWER_TIER_CONSERVE, POWER_TIER_RESERVE, POWER_TIER_SURVIVAL}

WAKE_INTERVAL_NORMAL   == 5 * 60 * 1000
WAKE_INTERVAL_CONSERVE == 15 * 60 * 1000
WAKE_INTERVAL_RESERVE  == 30 * 60 * 1000
WAKE_INTERVAL_SURVIVAL == 60 * 60 * 1000

BATTERY_THRESHOLD_NORMAL_HIGH   == 3800
BATTERY_THRESHOLD_NORMAL_LOW    == 3600
BATTERY_THRESHOLD_CONSERVE_HIGH == 3600
BATTERY_THRESHOLD_CONSERVE_LOW  == 3400
BATTERY_THRESHOLD_RESERVE_HIGH  == 3400
BATTERY_THRESHOLD_RESERVE_LOW   == 3200

\* uint16_t battery_mv: the readings are 16-bit unsigned
UINT16_MAX == 65535

----------------------------------------------------------------------------
(* adaptive_scheduler_get_tier *)

\* the tier of the absolute ladder (the first if/else chain)
NaiveTier(mv) ==
    IF mv >= BATTERY_THRESHOLD_NORMAL_HIGH THEN POWER_TIER_NORMAL
    ELSE IF mv >= BATTERY_THRESHOLD_CONSERVE_HIGH THEN POWER_TIER_CONSERVE
    ELSE IF mv >= BATTERY_THRESHOLD_RESERVE_HIGH THEN POWER_TIER_RESERVE
    ELSE POWER_TIER_SURVIVAL

\* Hysteresis with the Normal descent test strict (<, for <=)
HysteresisStrictLow(new_tier, mv, cur) ==
    IF new_tier = cur THEN new_tier
    ELSE IF new_tier > cur
    THEN IF mv < BATTERY_THRESHOLD_NORMAL_LOW /\ cur = POWER_TIER_NORMAL
              THEN POWER_TIER_CONSERVE
         ELSE IF mv <= BATTERY_THRESHOLD_CONSERVE_LOW /\ cur = POWER_TIER_CONSERVE
              THEN POWER_TIER_RESERVE
         ELSE IF mv <= BATTERY_THRESHOLD_RESERVE_LOW /\ cur = POWER_TIER_RESERVE
              THEN POWER_TIER_SURVIVAL
         ELSE cur
    ELSE IF mv >= BATTERY_THRESHOLD_NORMAL_HIGH /\ cur = POWER_TIER_CONSERVE
              THEN POWER_TIER_NORMAL
         ELSE IF mv >= BATTERY_THRESHOLD_CONSERVE_HIGH /\ cur = POWER_TIER_RESERVE
              THEN POWER_TIER_CONSERVE
         ELSE IF mv >= BATTERY_THRESHOLD_RESERVE_HIGH /\ cur = POWER_TIER_SURVIVAL
              THEN POWER_TIER_RESERVE
         ELSE cur

\* Hysteresis with the recovery from Reserve tested against the Normal threshold
HysteresisRecoverHigh(new_tier, mv, cur) ==
    IF new_tier = cur THEN new_tier
    ELSE IF new_tier > cur
    THEN IF mv <= BATTERY_THRESHOLD_NORMAL_LOW /\ cur = POWER_TIER_NORMAL
              THEN POWER_TIER_CONSERVE
         ELSE IF mv <= BATTERY_THRESHOLD_CONSERVE_LOW /\ cur = POWER_TIER_CONSERVE
              THEN POWER_TIER_RESERVE
         ELSE IF mv <= BATTERY_THRESHOLD_RESERVE_LOW /\ cur = POWER_TIER_RESERVE
              THEN POWER_TIER_SURVIVAL
         ELSE cur
    ELSE IF mv >= BATTERY_THRESHOLD_NORMAL_HIGH /\ cur = POWER_TIER_CONSERVE
              THEN POWER_TIER_NORMAL
         ELSE IF mv >= BATTERY_THRESHOLD_NORMAL_HIGH /\ cur = POWER_TIER_RESERVE
              THEN POWER_TIER_CONSERVE
         ELSE IF mv >= BATTERY_THRESHOLD_RESERVE_HIGH /\ cur = POWER_TIER_SURVIVAL
              THEN POWER_TIER_RESERVE
         ELSE cur

\* Hysteresis with the descent tests dropped: one step whenever the ladder tier differs
HysteresisNoBand(new_tier, mv, cur) ==
    IF new_tier = cur THEN new_tier
    ELSE IF new_tier > cur THEN cur + 1
    ELSE cur - 1

\* Hysteresis that takes the ladder tier as it is (no one-step limit)
HysteresisJump(new_tier, mv, cur) ==
    IF new_tier = cur THEN new_tier
    ELSE IF new_tier > cur
    THEN IF mv <= BATTERY_THRESHOLD_NORMAL_LOW /\ cur = POWER_TIER_NORMAL
              THEN new_tier
         ELSE IF mv <= BATTERY_THRESHOLD_CONSERVE_LOW /\ cur = POWER_TIER_CONSERVE
              THEN new_tier
         ELSE IF mv <= BATTERY_THRESHOLD_RESERVE_LOW /\ cur = POWER_TIER_RESERVE
              THEN new_tier
         ELSE cur
    ELSE new_tier

\* the hysteresis block: new_tier after "if (new_tier != current_tier) { ... }"
Hysteresis(new_tier, mv, cur) ==
    IF new_tier = cur THEN new_tier
    ELSE IF new_tier > cur
    THEN IF mv <= BATTERY_THRESHOLD_NORMAL_LOW /\ cur = POWER_TIER_NORMAL
              THEN POWER_TIER_CONSERVE
         ELSE IF mv <= BATTERY_THRESHOLD_CONSERVE_LOW /\ cur = POWER_TIER_CONSERVE
              THEN POWER_TIER_RESERVE
         ELSE IF mv <= BATTERY_THRESHOLD_RESERVE_LOW /\ cur = POWER_TIER_RESERVE
              THEN POWER_TIER_SURVIVAL
         ELSE cur
    ELSE IF mv >= BATTERY_THRESHOLD_NORMAL_HIGH /\ cur = POWER_TIER_CONSERVE
              THEN POWER_TIER_NORMAL
         ELSE IF mv >= BATTERY_THRESHOLD_CONSERVE_HIGH /\ cur = POWER_TIER_RESERVE
              THEN POWER_TIER_CONSERVE
         ELSE IF mv >= BATTERY_THRESHOLD_RESERVE_HIGH /\ cur = POWER_TIER_SURVIVAL
              THEN POWER_TIER_RESERVE
         ELSE cur

\* the value the call leaves in the static current_tier and returns
adaptive_scheduler_get_tier(mv, cur) == Hysteresis(NaiveTier(mv), mv, cur)

\* adaptive_scheduler_get_interval with the Reserve case falling into Conserve's
get_interval_wrong_case(tier) ==
    CASE tier = POWER_TIER_NORMAL   -> WAKE_INTERVAL_NORMAL
      [] tier = POWER_TIER_CONSERVE -> WAKE_INTERVAL_CONSERVE
      [] tier = POWER_TIER_RESERVE  -> WAKE_INTERVAL_CONSERVE
      [] tier = POWER_TIER_SURVIVAL -> WAKE_INTERVAL_SURVIVAL
      [] OTHER                      -> WAKE_INTERVAL_NORMAL

(* adaptive_scheduler_get_interval *)
adaptive_scheduler_get_interval(tier) ==
    CASE tier = POWER_TIER_NORMAL   -> WAKE_INTERVAL_NORMAL
      [] tier = POWER_TIER_CONSERVE -> WAKE_INTERVAL_CONSERVE
      [] tier = POWER_TIER_RESERVE  -> WAKE_INTERVAL_RESERVE
      [] tier = POWER_TIER_SURVIVAL -> WAKE_INTERVAL_SURVIVAL
      [] OTHER                      -> WAKE_INTERVAL_NORMAL

----------------------------------------------------------------------------
(* observers of the reading sequence *)

\* the reading sequence of the worked example
ReadingScript == <<4000, 3700, 3550, 3550, 3300, 3650>>

\* script_pos once the readings fed since the start are no prefix of ReadingScript
OffScript == Len(ReadingScript) + 1

Min2(a, b) == IF a <= b THEN a ELSE b
Max2(a, b) == IF a >= b THEN a ELSE b

\* the observers after a call that was fed mv and moved the tier from old to new
Observe(mv, old, new) ==
    /\ mv_lo' = Min2(mv_lo, mv)
    /\ mv_hi' = Max2(mv_hi, mv)
    /\ went_up' = (went_up \/ new > old)
    /\ went_down' = (went_down \/ new < old)
    /\ script_pos' = IF /\ script_pos < Len(ReadingScript)
                        /\ ReadingScript[script_pos + 1] = mv
                     THEN script_pos + 1
                     ELSE OffScript
    /\ tier_log' = tier_log

\* no reading fed yet: the identities of min and max
ObserveInit(tier) ==
    /\ mv_lo = UINT16_MAX
    /\ mv_hi = 0
    /\ went_up = FALSE
    /\ went_down = FALSE
    /\ script_pos = IF tier = POWER_TIER_NORMAL THEN 0 ELSE OffScript
    /\ tier_log = <<tier>>

----------------------------------------------------------------------------
(* rv3028.h: the register map and the control bits *)

RV3028_REG_SECONDS    == 0
RV3028_REG_MINUTES    == 1
RV3028_REG_HOURS      == 2
RV3028_REG_WEEKDAY    == 3
RV3028_REG_DATE       == 4
RV3028_REG_MONTH      == 5
RV3028_REG_YEAR       == 6
RV3028_REG_ALARM_SEC  == 7
RV3028_REG_ALARM_MIN  == 8
RV3028_REG_ALARM_HOUR == 9
RV3028_REG_ALARM_WEEK == 10
RV3028_REG_ALARM_DATE == 11
RV3028_REG_STATUS     == 14
RV3028_REG_CONTROL1   == 15
RV3028_REG_CONTROL2   == 16
\* the last register the header names (0x1F)
RV3028_REG_TIMESTAMP5 == 31

RV3028_CTRL1_12_24  == 16
RV3028_CTRL1_CLKINT == 1
RV3028_CTRL2_AF     == 64
RV3028_CTRL2_TF     == 32
RV3028_CTRL2_UF     == 16
RV3028_CTRL2_AIE    == 8

RegAddrs == 0..RV3028_REG_TIMESTAMP5

(* uint8_t arithmetic *)

Bit(x, i) == (x \div (2 ^ i)) % 2

\* x & y, x | y and ~x on bytes
And8(x, y) ==
    LET b(i) == Bit(x, i) * Bit(y, i) * (2 ^ i)
    IN  b(0) + b(1) + b(2) + b(3) + b(4) + b(5) + b(6) + b(7)
Or8(x, y) == x + y - And8(x, y)
Not8(x) == 255 - x

\* the value stored as it is, not decimal-coded
bin_unencoded(bin) == bin % 256

\* bcd_to_bin and bin_to_bcd, with the uint8_t truncation of the result
bcd_to_bin(bcd) == (((bcd \div 16) * 10) + (bcd % 16)) % 256

bin_to_bcd(bin) == (((bin \div 10) * 16) + (bin % 10)) % 256

(* the bus *)

\* a failed transaction's return value (a negative errno)
BusError == 0 - 5

\* i2c_write(i2c_dev, buf, len, RV3028_I2C_ADDR) that succeeds: the device takes the
\* first byte as the register address and stores the bytes after it in that register
\* and the following ones; addresses outside the register map store nothing
I2cWrite(r, buf) ==
    [a \in RegAddrs |->
        IF a >= buf[1] /\ a - buf[1] + 2 <= Len(buf)
        THEN buf[a - buf[1] + 2]
        ELSE r[a]]

\* rv3028_write_reg(reg, data): buf = {reg, data}
rv3028_write_reg(r, reg, data, ok) == IF ok THEN I2cWrite(r, <<reg, data>>) ELSE r

\* rv3028_read_reg8(reg): the byte read, 0 when the read fails
rv3028_read_reg8(r, reg, ok) == IF ok THEN r[reg] ELSE 0

(* rv3028_get_time: the decode of the seven bytes read from RV3028_REG_SECONDS *)
DecodeTime(r) ==
    [seconds |-> bcd_to_bin(r[RV3028_REG_SECONDS] % 128),
     minutes |-> bcd_to_bin(r[RV3028_REG_MINUTES] % 128),
     hours   |-> bcd_to_bin(r[RV3028_REG_HOURS] % 64),
     weekday |-> r[RV3028_REG_WEEKDAY] % 8,
     date    |-> bcd_to_bin(r[RV3028_REG_DATE] % 64),
     month   |-> bcd_to_bin(r[RV3028_REG_MONTH] % 32),
     year    |-> 2000 + bcd_to_bin(r[RV3028_REG_YEAR])]

(* rv3028_set_time: the seven bytes data[0..6] it encodes *)
EncodeTime(t) ==
    <<bin_to_bcd(t.seconds), bin_to_bcd(t.minutes), bin_to_bcd(t.hours), t.weekday,
      bin_to_bcd(t.date), bin_to_bcd(t.month), bin_to_bcd((t.year - 2000) % 256)>>

\* the register file with the clock showing t (the clock keeps its time in this form)
ClockShows(r, t) ==
    [a \in RegAddrs |-> IF a <= RV3028_REG_YEAR THEN EncodeTime(t)[a + 1] ELSE r[a]]

\* rv3028_set_wakeup_time with the alarm's hours not reduced modulo 24
TargetAlarmNoWrap(t, seconds_from_now) ==
    LET target == (t.hours * 3600) + (t.minutes * 60) + t.seconds + seconds_from_now
    IN  [target  |-> target,
         seconds |-> (target % 60) % 256,
         minutes |-> ((target \div 60) % 60) % 256,
         hours   |-> (target \div 3600) % 256,
         weekday |-> t.weekday,
         date    |-> t.date]

\* rv3028_set_wakeup_time with the day fields advanced when the target passes midnight
TargetAlarmNextDay(t, seconds_from_now) ==
    LET target == (t.hours * 3600) + (t.minutes * 60) + t.seconds + seconds_from_now
    IN  [target  |-> target,
         seconds |-> (target % 60) % 256,
         minutes |-> ((target \div 60) % 60) % 256,
         hours   |-> ((target \div 3600) % 24) % 256,
         weekday |-> (t.weekday + (target \div 86400)) % 7,
         date    |-> t.date + (target \div 86400)]

(* rv3028_set_wakeup_time: target_seconds and the alarm fields from the time read. *)
(* The fields read are bytes and seconds_from_now is a uint32_t divided by 1000,  *)
(* so the uint32_t sum stays below 2^32 and does not wrap.                        *)
TargetAlarm(t, seconds_from_now) ==
    LET target == (t.hours * 3600) + (t.minutes * 60) + t.seconds + seconds_from_now
    IN  [target  |-> target,
         seconds |-> (target % 60) % 256,
         minutes |-> ((target \div 60) % 60) % 256,
         hours   |-> ((target \div 3600) % 24) % 256,
         weekday |-> t.weekday,
         date    |-> t.date]

(* rv3028_set_alarm: the five bytes data[0..4] handed to i2c_write *)
AlarmBytes(al) ==
    <<bin_to_bcd(al.seconds), bin_to_bcd(al.minutes), bin_to_bcd(al.hours), al.weekday,
      bin_to_bcd(al.date)>>

\* a register read issued to the clock (rv3028_read_reg) and its outcome
BusRead(reg, len, ok) == [op |-> "read", reg |-> reg, len |-> len, ok |-> ok]

\* an i2c_write issued to the clock and its outcome: the register the device takes the
\* first byte for, and the number of bytes after it
BusWrite(reg, len, ok) == [op |-> "write", reg |-> reg, len |-> len, ok |-> ok]

\* locals that hold nothing yet
NoTime == [seconds |-> 0, minutes |-> 0, hours |-> 0, weekday |-> 0, date |-> 0,
           month |-> 0, year |-> 0]
NoAlarm == [seconds |-> 0, minutes |-> 0, hours |-> 0, weekday |-> 0, date |-> 0]

----------------------------------------------------------------------------
(* bme280.h *)

BME280_REG_PRESS_MSB  == 247
BME280_REG_HUM_LSB    == 254
BME280_REG_CTRL_MEAS  == 244
BME280_REG_CTRL_HUM   == 242
BME280_REG_CHIP_ID    == 208

BME280_REG_DIG_T1  == 136
BME280_REG_DIG_T2  == 138
BME280_REG_DIG_T3  == 140
BME280_REG_DIG_P1  == 142
BME280_REG_DIG_P2  == 144
BME280_REG_DIG_P3  == 146
BME280_REG_DIG_P4  == 148
BME280_REG_DIG_P5  == 150
BME280_REG_DIG_P6  == 152
BME280_REG_DIG_P7  == 154
BME280_REG_DIG_P8  == 156
BME280_REG_DIG_P9  == 158
BME280_REG_DIG_H1  == 161
BME280_REG_DIG_H2  == 225
BME280_REG_DIG_H3  == 227
BME280_REG_DIG_H4  == 228
BME280_REG_DIG_H5  == 229
BME280_REG_DIG_H6  == 231

BME280_CTRL_HUM_OSRS_H_1X     == 1
BME280_CTRL_MEAS_OSRS_T_1X    == 32
BME280_CTRL_MEAS_OSRS_P_1X    == 4
BME280_CTRL_MEAS_MODE_FORCED  == 1

\* the registers of the sensor the driver addresses: calibration 0x88..0x9F, 0xA1,
\* 0xE1..0xE7, chip id, the two control registers, data 0xF7..0xFE
BmeAddrs ==
    (BME280_REG_DIG_T1..(BME280_REG_DIG_P9 + 1))
        \cup {BME280_REG_DIG_H1, BME280_REG_CHIP_ID}
        \cup (BME280_REG_DIG_H2..BME280_REG_DIG_H6)
        \cup {BME280_REG_CTRL_HUM, BME280_REG_CTRL_MEAS}
        \cup (BME280_REG_PRESS_MSB..BME280_REG_HUM_LSB)

----------------------------------------------------------------------------
(* bme280.c: register access and calibration load *)

\* (int16_t) of a uint16_t value, (int8_t) of a uint8_t value
ToInt16(x) == IF x >= 32768 THEN x - 65536 ELSE x
ToInt8(x) == IF x >= 128 THEN x - 256 ELSE x

\* bme280_read_reg8(reg): the byte read, 0 when the read fails
bme280_read_reg8(r, reg, ok) == IF ok THEN r[reg] ELSE 0

\* bme280_read_reg16(reg): data[0] is the byte at reg, data[1] the byte at reg + 1;
\* (data[0] << 8) | data[1], 0 when the read fails
bme280_read_reg16(r, reg, ok) == IF ok THEN (r[reg] * 256) + r[reg + 1] ELSE 0

\* bme280_read_reg16_signed(reg)
bme280_read_reg16_signed(r, reg, ok) == ToInt16(bme280_read_reg16(r, reg, ok))

\* the register reads of bme280_read_calibration_data, in program order
CalibReads ==
    {"T1", "T2", "T3", "P1", "P2", "P3", "P4", "P5", "P6", "P7", "P8", "P9",
     "H1", "H2", "H3", "H4_msb", "H4_lsb", "H5_msb", "H5_lsb", "H6"}

\* static struct bme280_calib_data calib_data at program start
ZeroCalib ==
    [dig_T1 |-> 0, dig_T2 |-> 0, dig_T3 |-> 0,
     dig_P1 |-> 0, dig_P2 |-> 0, dig_P3 |-> 0, dig_P4 |-> 0, dig_P5 |-> 0,
     dig_P6 |-> 0, dig_P7 |-> 0, dig_P8 |-> 0, dig_P9 |-> 0,
     dig_H1 |-> 0, dig_H2 |-> 0, dig_H3 |-> 0, dig_H4 |-> 0, dig_H5 |-> 0,
     dig_H6 |-> 0]

\* dig_H4 taking the high nibble of the shared byte
UnpackH4High(h4_msb, h4_lsb) == ToInt16((h4_msb * 16) + ((h4_lsb \div 16) % 16))

\* calib_data.dig_H4 = (h4_msb << 4) | (h4_lsb & 0x0F)
UnpackH4(h4_msb, h4_lsb) == ToInt16((h4_msb * 16) + (h4_lsb % 16))

\* calib_data.dig_H5 = (h5_msb << 4) | ((h5_lsb >> 4) & 0x0F)
UnpackH5(h5_msb, h5_lsb) == ToInt16((h5_msb * 16) + ((h5_lsb \div 16) % 16))

\* the coefficients bme280_read_calibration_data stores when the reads in `failed`
\* fail on the bus
LoadedCalib(r, failed) ==
    LET ok(site) == site \notin failed
        h4_msb == bme280_read_reg8(r, BME280_REG_DIG_H4, ok("H4_msb"))
        h4_lsb == bme280_read_reg8(r, BME280_REG_DIG_H4 + 1, ok("H4_lsb"))
        h5_msb == bme280_read_reg8(r, BME280_REG_DIG_H5 + 1, ok("H5_msb"))
        h5_lsb == bme280_read_reg8(r, BME280_REG_DIG_H5, ok("H5_lsb"))
    IN  [dig_T1 |-> bme280_read_reg16(r, BME280_REG_DIG_T1, ok("T1")),
         dig_T2 |-> bme280_read_reg16_signed(r, BME280_REG_DIG_T2, ok("T2")),
         dig_T3 |-> bme280_read_reg16_signed(r, BME280_REG_DIG_T3, ok("T3")),
         dig_P1 |-> bme280_read_reg16(r, BME280_REG_DIG_P1, ok("P1")),
         dig_P2 |-> bme280_read_reg16_signed(r, BME280_REG_DIG_P2, ok("P2")),
         dig_P3 |-> bme280_read_reg16_signed(r, BME280_REG_DIG_P3, ok("P3")),
         dig_P4 |-> bme280_read_reg16_signed(r, BME280_REG_DIG_P4, ok("P4")),
         dig_P5 |-> bme280_read_reg16_signed(r, BME280_REG_DIG_P5, ok("P5")),
         dig_P6 |-> bme280_read_reg16_signed(r, BME280_REG_DIG_P6, ok("P6")),
         dig_P7 |-> bme280_read_reg16_signed(r, BME280_REG_DIG_P7, ok("P7")),
         dig_P8 |-> bme280_read_reg16_signed(r, BME280_REG_DIG_P8, ok("P8")),
         dig_P9 |-> bme280_read_reg16_signed(r, BME280_REG_DIG_P9, ok("P9")),
         dig_H1 |-> bme280_read_reg8(r, BME280_REG_DIG_H1, ok("H1")),
         dig_H2 |-> bme280_read_reg16_signed(r, BME280_REG_DIG_H2, ok("H2")),
         dig_H3 |-> bme280_read_reg8(r, BME280_REG_DIG_H3, ok("H3")),
         dig_H4 |-> UnpackH4(h4_msb, h4_lsb),
         dig_H5 |-> UnpackH5(h5_msb, h5_lsb),
         dig_H6 |-> ToInt8(bme280_read_reg8(r, BME280_REG_DIG_H6, ok("H6")))]

\* bme280_read_calibration_data reporting a bus error when a read failed
read_calibration_checked(r, failed) ==
    [ret |-> IF failed = {} THEN 0 ELSE BusError, calib |-> LoadedCalib(r, failed)]

\* bme280_read_calibration_data(): the coefficients stored and the value returned
bme280_read_calibration_data(r, failed) ==
    [ret |-> 0, calib |-> LoadedCalib(r, failed)]

----------------------------------------------------------------------------
(* bme280.c: the 32-bit integer arithmetic of bme280_read_forced             *)
(*                                                                          *)
(* An int32_t or uint32_t value is held as the int32_t with the same 32     *)
(* bits.  Signed +, - and * that leave the int32_t range are undefined in C: *)
(* a value carries the mark ub once such an operation took part in it, and  *)
(* with it the value that arithmetic modulo 2^32 gives.                     *)
(* >> of a signed value is the arithmetic shift and << the multiplication   *)
(* modulo 2^32, as the compiler of the Zephyr toolchain (GCC) defines them; *)
(* unsigned arithmetic and the uint32_t <-> int32_t conversions are modulo  *)
(* 2^32.                                                                    *)

INT32_MAX == 2147483647
INT32_MIN == (0 - INT32_MAX) - 1

\* an int32_t value no undefined operation took part in
I(x) == [ub |-> FALSE, v |-> x]

Abs(x) == IF x < 0 THEN 0 - x ELSE x

AddFits(a, b) == IF b >= 0 THEN a <= INT32_MAX - b ELSE a >= INT32_MIN - b
SubFits(a, b) == IF b >= 0 THEN a >= INT32_MIN + b ELSE a <= INT32_MAX + b

MulFits(a, b) ==
    IF a = 0 \/ b = 0 THEN TRUE
    ELSE IF a = INT32_MIN THEN b = 1
    ELSE IF b = INT32_MIN THEN a = 1
    ELSE IF (a < 0) = (b < 0)
         THEN Abs(a) <= INT32_MAX \div Abs(b)
         ELSE \/ Abs(a) <= INT32_MAX \div Abs(b)
              \/ /\ Abs(a) = (INT32_MAX \div Abs(b)) + 1
                 /\ INT32_MAX % Abs(b) = Abs(b) - 1

\* a + b and a - b modulo 2^32
WrapAdd(a, b) ==
    IF AddFits(a, b) THEN a + b
    ELSE IF a > 0 THEN (a + INT32_MIN) + (b + INT32_MIN)
    ELSE (a - INT32_MIN) + (b - INT32_MIN)

WrapNeg(b) == IF b = INT32_MIN THEN INT32_MIN ELSE 0 - b

WrapSub(a, b) == WrapAdd(a, WrapNeg(b))

\* the int32_t with the 32 bits of hi16 * 2^16 + lo16
FromHalves(hi16, lo16) ==
    IF hi16 >= 32768 THEN ((hi16 - 65536) * 65536) + lo16 ELSE (hi16 * 65536) + lo16

\* a * b modulo 2^32, by 16-bit halves of a and 8-bit quarters of b's low half
WrapMul(a, b) ==
    LET aL  == a % 65536
        aH  == (a \div 65536) % 65536
        bL  == b % 65536
        bH  == (b \div 65536) % 65536
        bL0 == bL % 256
        bL1 == bL \div 256
        bH0 == bH % 256
        bH1 == bH \div 256
        t0  == aL * bL0
        t1  == aL * bL1
        low == t0 + (256 * (t1 % 256))
        lo16  == low % 65536
        carry == (low \div 65536) + (t1 \div 256)
        aHbL  == ((aH * bL0) + (256 * ((aH * bL1) % 256))) % 65536
        aLbH  == ((aL * bH0) + (256 * ((aL * bH1) % 256))) % 65536
        hi16  == (carry + aHbL + aLbH) % 65536
    IN  FromHalves(hi16, lo16)

\* signed a + b, a - b, a * b
SAdd(x, y) == [ub |-> x.ub \/ y.ub \/ ~AddFits(x.v, y.v), v |-> WrapAdd(x.v, y.v)]
SSub(x, y) == [ub |-> x.ub \/ y.ub \/ ~SubFits(x.v, y.v), v |-> WrapSub(x.v, y.v)]
SMul(x, y) == [ub |-> x.ub \/ y.ub \/ ~MulFits(x.v, y.v), v |-> WrapMul(x.v, y.v)]

\* x >> n of a signed x, x << n
Shr(x, n) == [ub |-> x.ub, v |-> x.v \div (2 ^ n)]
Shl(x, n) == [ub |-> x.ub, v |-> WrapMul(x.v, 2 ^ n)]

\* u / d of uint32_t u and d, d non-zero
UDiv(u, d) ==
    IF d < 0
    THEN (IF u < 0 /\ u >= d THEN 1 ELSE 0)
    ELSE IF u >= 0 THEN u \div d
    ELSE IF d = 1 THEN u
    ELSE LET h  == ((u \div 2) + 1073741824) + 1073741824
             l  == u % 2
             q1 == h \div d
             r1 == h % d
         IN  (2 * q1) + (IF r1 >= (d - r1) - l THEN 1 ELSE 0)

----------------------------------------------------------------------------
(* bme280.c: bme280_read_forced, from the raw values to the results          *)

\* the raw values of raw_data[0..7], the bytes read from 0xF7..0xFE
ExtractRaw(b) ==
    [adc_P |-> (b[1] * 4096) + (b[2] * 16) + (b[3] \div 16),
     adc_T |-> (b[4] * 4096) + (b[5] * 16) + (b[6] \div 16),
     adc_H |-> (b[7] * 256) + b[8]]

\* t_fine = var1 + var2 of the temperature compensation
TFine(adc_T, c) ==
    LET var1 == Shr(SMul(SSub(Shr(I(adc_T), 3), Shl(I(c.dig_T1), 1)), I(c.dig_T2)), 11)
        d    == SSub(Shr(I(adc_T), 4), I(c.dig_T1))
        var2 == Shr(SMul(Shr(SMul(d, d), 12), I(c.dig_T3)), 14)
    IN  SAdd(var1, var2)

\* (t_fine * 5 + 128) >> 8, the temperature in 0.01 degrees
TemperatureOf(t_fine) == Shr(SAdd(SMul(t_fine, I(5)), I(128)), 8)

\* var2 of the pressure compensation as the guard finds it
PressureVar2(t_fine, c) ==
    LET var1 == SSub(Shr(t_fine, 1), I(64000))
        sq   == SMul(Shr(var1, 2), Shr(var1, 2))
        v2a  == SMul(Shr(sq, 11), I(c.dig_P6))
        v2b  == SAdd(v2a, Shl(SMul(var1, I(c.dig_P5)), 1))
    IN  SAdd(Shr(v2b, 2), Shl(I(c.dig_P4), 16))

\* var1 of the pressure compensation as the guard finds it
PressureVar1(t_fine, c) ==
    LET var1 == SSub(Shr(t_fine, 1), I(64000))
        sq   == SMul(Shr(var1, 2), Shr(var1, 2))
        v1b  == Shr(SAdd(Shr(SMul(I(c.dig_P3), Shr(sq, 13)), 3),
                         Shr(SMul(I(c.dig_P2), var1), 1)), 18)
    IN  Shr(SMul(SAdd(I(32768), v1b), I(c.dig_P1)), 15)

\* p = (((uint32_t)(((int32_t)1048576) - adc_P) - (var2 >> 12))) * 3125: the
\* unsigned intermediate, as the 32 bits p holds
PressureIntermediate(adc_P, var2) ==
    WrapMul(WrapSub(1048576 - adc_P, Shr(var2, 12).v), 3125)

\* the branch on p < 0x80000000 (p's sign bit clear) with its division by
\* (uint32_t)var1, the doubling modulo 2^32 as the 32-bit operations do it
PressureBranch(p0, v1) ==
    IF p0 >= 0
    THEN UDiv(WrapMul(p0, 2), v1)
    ELSE WrapMul(UDiv(p0, v1), 2)

\* p after the guard: the unsigned intermediate, the branch on 0x80000000 with its
\* division by (uint32_t)var1, and the P7..P9 terms; var1 is not 0
PressureOf(adc_P, var1, var2, c) ==
    LET p0 == PressureIntermediate(adc_P, var2)
        q  == PressureBranch(p0, var1.v)
        p1 == [ub |-> var1.ub \/ var2.ub, v |-> q]
        w1 == Shr(SMul(I(c.dig_P9), Shr(SMul(Shr(p1, 3), Shr(p1, 3)), 13)), 12)
        w2 == Shr(SMul(Shr(p1, 2), I(c.dig_P8)), 13)
    IN  SAdd(p1, Shr(SAdd(SAdd(w1, w2), I(c.dig_P7)), 4))

\* var1 of the humidity compensation before the clamps
HumidityVar1(adc_H, t_fine, c) ==
    LET var1 == SSub(t_fine, I(76800))
        a    == Shr(SAdd(SSub(SSub(Shl(I(adc_H), 14), Shl(I(c.dig_H4), 20)),
                              SMul(I(c.dig_H5), var1)),
                         I(16384)), 15)
        m6   == Shr(SMul(var1, I(c.dig_H6)), 10)
        m3   == SAdd(Shr(SMul(var1, I(c.dig_H3)), 11), I(32768))
        b    == Shr(SAdd(SMul(SAdd(Shr(SMul(m6, m3), 10), I(2097152)), I(c.dig_H2)),
                         I(8192)), 14)
        var2 == SMul(a, b)
    IN  SSub(var1, Shr(SMul(var2, SMul(m6, m3)), 10))

\* the lower clamp alone
ClampLow(x) == IF x < 0 THEN 0 ELSE x

\* var1 = (var1 < 0 ? 0 : var1); var1 = (var1 > 419430400 ? 419430400 : var1)
Clamp(x) == IF x < 0 THEN 0 ELSE IF x > 419430400 THEN 419430400 ELSE x

\* -EIO
EIO == 0 - 5

\* struct bme280_data before anything is stored in it
NoSample == [temperature |-> 0, pressure |-> 0, humidity |-> 0]

\* what a bme280_read_forced call that got no further than the bus leaves of its
\* compensation: the guard not reached
NotCompensated == [guard |-> FALSE, var1 |-> 0, divisors |-> <<>>, hum_var1 |-> 0]

\* the compensation with var1 == 0 giving a pressure of 0 and going on
ForcedResultSilent(t, v1, p, hp, old) ==
    [ret |-> 0,
     data |-> [temperature |-> t, pressure |-> IF v1 = 0 THEN 0 ELSE p,
               humidity |-> Clamp(hp) \div 4096],
     comp |-> [guard |-> TRUE, var1 |-> v1,
               divisors |-> IF v1 = 0 THEN <<>> ELSE <<v1>>,
               hum_var1 |-> Clamp(hp)]]

\* bme280_read_forced from the guard on, for the values t of the temperature, v1 of
\* the pressure's var1, p of the pressure and hp of the humidity's var1 before its
\* clamps: the value returned, *data (temperature, pressure and humidity as the
\* integers before the division by 100.0f, 256.0f and 1024.0f; old is what *data
\* held), the divisors of the divisions made and var1 after the clamps
ForcedResult(t, v1, p, hp, old) ==
    IF v1 = 0
    THEN [ret |-> EIO,
          data |-> [old EXCEPT !.temperature = t],
          comp |-> [guard |-> TRUE, var1 |-> v1, divisors |-> <<>>, hum_var1 |-> 0]]
    ELSE [ret |-> 0,
          data |-> [temperature |-> t, pressure |-> p, humidity |-> Clamp(hp) \div 4096],
          comp |-> [guard |-> TRUE, var1 |-> v1, divisors |-> <<v1>>,
                    hum_var1 |-> Clamp(hp)]]

\* values an undefined signed operation may leave in a variable, besides the one
\* arithmetic modulo 2^32 gives
UbValues == {INT32_MIN, 0, INT32_MAX}

\* the values x may hold
ValuesOf(x) == IF x.ub THEN UbValues \cup {x.v} ELSE {x.v}

\* the outcomes of bme280_read_forced's compensation of raw under the calibration c.
\* A variable computed with a signed overflow may hold any value; the guard and the
\* clamps are applied to whatever it holds.
Compensate(raw, c, old) ==
    LET t_fine == TFine(raw.adc_T, c)
        temp   == TemperatureOf(t_fine)
        var1   == PressureVar1(t_fine, c)
        var2   == PressureVar2(t_fine, c)
        hum    == HumidityVar1(raw.adc_H, t_fine, c)
    IN  UNION {IF v1 = 0
               THEN {ForcedResult(t, 0, 0, 0, old) : t \in ValuesOf(temp)}
               ELSE {ForcedResult(t, v1, p, hp, old) :
                        t \in ValuesOf(temp),
                        p \in ValuesOf(PressureOf(raw.adc_P,
                                                  [ub |-> var1.ub, v |-> v1], var2, c)),
                        hp \in ValuesOf(hum)} :
               v1 \in ValuesOf(var1)}

----------------------------------------------------------------------------
(* bme280.c: bme280_init and the bus side of bme280_read_forced *)

\* -ENODEV
ENODEV == 0 - 19

\* the chip id bme280_init accepts
BME280_CHIP_ID_VALUE == 96

\* ctrl_meas as bme280_init and bme280_read_forced write it
CtrlMeasForced ==
    BME280_CTRL_MEAS_OSRS_T_1X + BME280_CTRL_MEAS_OSRS_P_1X + BME280_CTRL_MEAS_MODE_FORCED

\* bme280_write_reg(reg, data): the register file after the write
bme280_write_reg(r, reg, data, ok) == IF ok THEN [r EXCEPT ![reg] = data] ELSE r

\* no calibration load made
NoLoad == [id |-> "none", done |-> FALSE, failed |-> {}, ret |-> 0]

\* bme280_init() going on whatever the chip-id register holds
bme280_init_any_chip(r, calib, ready, id_ok, failed, hum_ok, meas_ok) ==
    LET load  == bme280_read_calibration_data(r, failed)
        after == [regs |-> r, calib |-> load.calib,
                  load |-> [id |-> IF id_ok THEN "read" ELSE "failed", done |-> TRUE,
                            failed |-> failed, ret |-> load.ret]]
        r1    == bme280_write_reg(r, BME280_REG_CTRL_HUM, BME280_CTRL_HUM_OSRS_H_1X, hum_ok)
        r2    == bme280_write_reg(r1, BME280_REG_CTRL_MEAS, CtrlMeasForced, meas_ok)
    IN  IF ~ready THEN [ret |-> ENODEV, regs |-> r, calib |-> calib, load |-> NoLoad]
        ELSE IF load.ret # 0 THEN [ret |-> EIO] @@ after
        ELSE IF ~hum_ok THEN [ret |-> EIO] @@ after
        ELSE IF ~meas_ok THEN [ret |-> EIO] @@ [after EXCEPT !.regs = r1]
        ELSE [ret |-> 0] @@ [after EXCEPT !.regs = r2]

\* bme280_init(): the value returned, the register file and calib_data after it, and
\* what it did.  ready: device_is_ready; id_ok, hum_ok, meas_ok: the chip-id read and
\* the two control writes reaching the device; failed: the calibration reads that fail
bme280_init(r, calib, ready, id_ok, failed, hum_ok, meas_ok) ==
    LET untouched == [regs |-> r, calib |-> calib, load |-> NoLoad]
        rejected  == [untouched EXCEPT !.load.id = IF id_ok THEN "read" ELSE "failed"]
        load  == bme280_read_calibration_data(r, failed)
        after == [regs |-> r, calib |-> load.calib,
                  load |-> [id |-> "read", done |-> TRUE, failed |-> failed,
                            ret |-> load.ret]]
        r1    == bme280_write_reg(r, BME280_REG_CTRL_HUM, BME280_CTRL_HUM_OSRS_H_1X, hum_ok)
        r2    == bme280_write_reg(r1, BME280_REG_CTRL_MEAS, CtrlMeasForced, meas_ok)
    IN  IF ~ready THEN [ret |-> ENODEV] @@ untouched
        ELSE IF bme280_read_reg8(r, BME280_REG_CHIP_ID, id_ok) # BME280_CHIP_ID_VALUE
        THEN [ret |-> ENODEV] @@ rejected
        ELSE IF load.ret # 0 THEN [ret |-> EIO] @@ after
        ELSE IF ~hum_ok THEN [ret |-> EIO] @@ after
        ELSE IF ~meas_ok THEN [ret |-> EIO] @@ [after EXCEPT !.regs = r1]
        ELSE [ret |-> 0] @@ [after EXCEPT !.regs = r2]

\* the bytes of 0xF7..0xFE, raw_data[0..7]
DataBytes(r) == [i \in 1..8 |-> r[BME280_REG_PRESS_MSB + (i - 1)]]

\* the register file once the device has measured: the sample's bytes in 0xF7..0xFE
Measured(r, sample) ==
    [a \in BmeAddrs |->
        IF a >= BME280_REG_PRESS_MSB THEN sample[(a - BME280_REG_PRESS_MSB) + 1] ELSE r[a]]

\* bme280_read_forced(data): the outcomes of the call on the register file measured
\* (the device's once it has measured), each the value returned, *data and what the
\* compensation did; wr_ok, rd_ok: the trigger write and the data read succeeding
bme280_read_forced(measured, c, old, wr_ok, rd_ok) ==
    IF ~wr_ok \/ ~rd_ok
    THEN {[ret |-> EIO, data |-> old, comp |-> NotCompensated]}
    ELSE Compensate(ExtractRaw(DataBytes(measured)), c, old)

\* main_thread's fallback values 0.0f, 1013.25f and 50.0f in the integers of the
\* driver: hundredths of a degree, 1/256 and 1/1024
SensorDefaults == [temperature |-> 0, pressure |-> 259392, humidity |-> 51200]

----------------------------------------------------------------------------
(* ble_advertiser.c *)

\* -ENOMEM
ENOMEM == 0 - 12

\* sizeof(adv_data)
ADV_DATA_SIZE == 31

\* strlen("TempSensor")
NAME_LEN == 10

\* sizeof(struct sensor_adv_data), packed: version, tier, battery_mv, temperature,
\* pressure, humidity, timestamp
SENSOR_ADV_DATA_SIZE == 1 + 1 + 2 + 2 + 2 + 2 + 4

\* no payload
NoPayload ==
    [version |-> 0, tier |-> 0, battery_mv |-> 0, temperature |-> 0, pressure |-> 0,
     humidity |-> 0, ub |-> FALSE]

\* sensor_payload without its timestamp: temperature * 100, pressure * 10 and
\* humidity * 100 of the floats temperature / 100, p / 256 and h / 1024, truncated;
\* ub when a value does not fit the field's integer type (the conversion of an
\* out-of-range float is undefined), the field then holding its low 16 bits
SensorPayload(sensor, mv, tier) ==
    LET t  == sensor.temperature
        a  == IF sensor.pressure = INT32_MIN THEN INT32_MAX ELSE Abs(sensor.pressure)
        m  == ((a \div 256) * 10) + (((a % 256) * 10) \div 256)
        pr == IF sensor.pressure < 0 THEN 0 - m ELSE m
        h  == (sensor.humidity * 100) \div 1024
    IN  [version |-> 1, tier |-> tier % 256, battery_mv |-> mv,
         temperature |-> ToInt16(t % 65536), pressure |-> pr % 65536,
         humidity |-> h % 65536,
         ub |-> \/ t < 0 - 32768 \/ t > 32767
                \/ pr < 0 \/ pr > UINT16_MAX
                \/ h < 0 \/ h > UINT16_MAX]

\* prepare_adv_data(): the value returned, adv_data_len after it and the payload in
\* adv_data.  remaining starts at sizeof(adv_data); the flags take 3 bytes, the name
\* name_len + 2, and the manufacturer data needs mfg_data_len + 1
prepare_adv_data(sensor, mv, tier, len) ==
    LET remaining0   == ADV_DATA_SIZE
        remaining1   == remaining0 - 3
        remaining2   == remaining1 - (NAME_LEN + 2)
        mfg_data_len == SENSOR_ADV_DATA_SIZE + 4
        failed       == [ret |-> ENOMEM, len |-> len, payload |-> NoPayload]
    IN  IF remaining0 < 3 THEN failed
        ELSE IF remaining1 < NAME_LEN + 2 THEN failed
        ELSE IF remaining2 < mfg_data_len + 1 THEN failed
        ELSE [ret |-> 0,
              len |-> 3 + (NAME_LEN + 2) + 4 + SENSOR_ADV_DATA_SIZE,
              payload |-> SensorPayload(sensor, mv, tier)]

\* the controller not advertising
RadioOff == [on |-> FALSE, data |-> NoPayload]

\* ble_advertiser_start(): the value returned, adv_data_len and the controller after
\* it; radio_ok: bt_le_adv_start accepting the request
ble_advertiser_start(sensor, mv, tier, len, rd, radio_ok) ==
    LET prep == prepare_adv_data(sensor, mv, tier, len)
    IN  IF prep.ret # 0 THEN [ret |-> prep.ret, len |-> prep.len, radio |-> rd]
        ELSE IF ~radio_ok THEN [ret |-> BusError, len |-> prep.len, radio |-> rd]
        ELSE [ret |-> 0, len |-> prep.len, radio |-> [on |-> TRUE, data |-> prep.payload]]

\* ble_advertiser_stop(): the controller after bt_le_adv_stop
ble_advertiser_stop(rd, ok) == IF ok THEN [rd EXCEPT !.on = FALSE] ELSE rd

----------------------------------------------------------------------------
(* the sensor as the driver finds it *)

\* the two bytes of a 16-bit coefficient as the device stores them
Lo(v) == v % 256
Hi(v) == (v \div 256) % 256

\* a 16-bit coefficient in the device's registers reg and reg + 1, low byte first
Stored16(reg, v) == (reg :> Lo(v)) @@ ((reg + 1) :> Hi(v))

\* the register file of a device with the coefficients k: its calibration registers,
\* its chip id, and the control and data registers as a reset leaves them
DeviceImage(k) ==
    Stored16(BME280_REG_DIG_T1, k.dig_T1) @@ Stored16(BME280_REG_DIG_T2, k.dig_T2)
    @@ Stored16(BME280_REG_DIG_T3, k.dig_T3) @@ Stored16(BME280_REG_DIG_P1, k.dig_P1)
    @@ Stored16(BME280_REG_DIG_P2, k.dig_P2) @@ Stored16(BME280_REG_DIG_P3, k.dig_P3)
    @@ Stored16(BME280_REG_DIG_P4, k.dig_P4) @@ Stored16(BME280_REG_DIG_P5, k.dig_P5)
    @@ Stored16(BME280_REG_DIG_P6, k.dig_P6) @@ Stored16(BME280_REG_DIG_P7, k.dig_P7)
    @@ Stored16(BME280_REG_DIG_P8, k.dig_P8) @@ Stored16(BME280_REG_DIG_P9, k.dig_P9)
    @@ (BME280_REG_DIG_H1 :> k.dig_H1) @@ Stored16(BME280_REG_DIG_H2, k.dig_H2)
    @@ (BME280_REG_DIG_H3 :> k.dig_H3)
    @@ (BME280_REG_DIG_H4 :> (k.dig_H4 \div 16) % 256)
    @@ (BME280_REG_DIG_H5 :> (k.dig_H4 % 16) + (16 * (k.dig_H5 % 16)))
    @@ ((BME280_REG_DIG_H5 + 1) :> (k.dig_H5 \div 16) % 256)
    @@ (BME280_REG_DIG_H6 :> Lo(k.dig_H6))
    @@ (BME280_REG_CHIP_ID :> BME280_CHIP_ID_VALUE)
    @@ [a \in BmeAddrs |-> IF a \in {BME280_REG_PRESS_MSB, BME280_REG_PRESS_MSB + 3,
                                       BME280_REG_PRESS_MSB + 6}
                           THEN 128 ELSE 0]

\* coefficients of a device
ReferenceCoefficients ==
    [dig_T1 |-> 27504, dig_T2 |-> 26435, dig_T3 |-> 0 - 1000,
     dig_P1 |-> 36477, dig_P2 |-> 0 - 10685, dig_P3 |-> 3024, dig_P4 |-> 2855,
     dig_P5 |-> 140, dig_P6 |-> 0 - 7, dig_P7 |-> 15500, dig_P8 |-> 0 - 14600,
     dig_P9 |-> 6000,
     dig_H1 |-> 75, dig_H2 |-> 367, dig_H3 |-> 0, dig_H4 |-> 301, dig_H5 |-> 50,
     dig_H6 |-> 30]

ReferenceImage == DeviceImage(ReferenceCoefficients)

\* the bytes 0xF7..0xFE of a measurement with the raw values adc_P, adc_T (20 bits)
\* and adc_H (16 bits)
SampleBytes(adc_P, adc_T, adc_H) ==
    <<adc_P \div 4096, (adc_P \div 16) % 256, (adc_P % 16) * 16,
      adc_T \div 4096, (adc_T \div 16) % 256, (adc_T % 16) * 16,
      adc_H \div 256, adc_H % 256>>

\* the calibration reads failing at boot: none
BootCalibFailures == {{}}

\* the measurements of the wake cycles
BootSamples == {SampleBytes(415148, 519888, 30000)}

----------------------------------------------------------------------------
(* main_thread *)

\* readings that sit on, just below and just above every threshold of the ladder,
\* the extremes of uint16_t, and the readings of ReadingScript
SampleMv ==
    {0, 3199, 3200, 3201, 3300, 3399, 3400, 3401, 3550, 3599, 3600, 3601,
     3650, 3700, 3799, 3800, 3801, 4000, UINT16_MAX}

\* battery_mv = battery_monitor_read_voltage(): any 16-bit value (0 on an ADC error)
ReadBattery(S) ==
    /\ pc = "read_battery"
    /\ \E mv \in S : battery_mv' = mv
    /\ pc' = "get_tier"
    /\ UNCHANGED <<tierVars, main_current_tier, next_wake_interval, obsVars, rtcVars>>
    /\ UNCHANGED <<bmeVars, bleVars>>

\* the call with the static left as it was (a pure function of its inputs)
GetTierPure(observed) ==
    /\ pc = "get_tier"
    /\ tier_before' = current_tier
    /\ current_tier' = current_tier
    /\ main_current_tier' = adaptive_scheduler_get_tier(battery_mv, current_tier)
    /\ IF observed
       THEN Observe(battery_mv, current_tier, main_current_tier')
       ELSE UNCHANGED obsVars
    /\ pc' = "get_interval"
    /\ UNCHANGED <<battery_mv, next_wake_interval, rtcVars>>
    /\ UNCHANGED <<bmeVars, bleVars>>

\* current_tier = adaptive_scheduler_get_tier(battery_mv): the call stores the new
\* tier in the static and returns it.  observed: whether the observers of the reading
\* sequence follow the call (they are no part of the program).
GetTier(observed) ==
    /\ pc = "get_tier"
    /\ tier_before' = current_tier
    /\ current_tier' = adaptive_scheduler_get_tier(battery_mv, current_tier)
    /\ main_current_tier' = current_tier'
    /\ IF observed
       THEN Observe(battery_mv, current_tier, current_tier')
       ELSE UNCHANGED obsVars
    /\ pc' = "get_interval"
    /\ UNCHANGED <<battery_mv, next_wake_interval, rtcVars>>
    /\ UNCHANGED <<bmeVars, bleVars>>

\* next_wake_interval = adaptive_scheduler_get_interval(current_tier)
GetInterval ==
    /\ pc = "get_interval"
    /\ next_wake_interval' = adaptive_scheduler_get_interval(main_current_tier)
    /\ pc' = "read_sensor"
    /\ UNCHANGED <<tierVars, battery_mv, main_current_tier, obsVars, rtcVars>>
    /\ UNCHANGED <<bmeVars, bleVars>>

\* ret = bme280_read_forced(&sensor_data): the trigger write, the device measuring a
\* sample of S, the 8-byte read, the compensation
ReadForced(S) ==
    /\ pc = "read_sensor"
    /\ \E wr_ok \in BOOLEAN, rd_ok \in BOOLEAN, sample \in S :
          LET triggered == bme280_write_reg(bme_regs, BME280_REG_CTRL_MEAS,
                                            CtrlMeasForced, wr_ok)
              measured  == Measured(triggered, sample)
          IN  /\ bme_regs' = IF wr_ok THEN measured ELSE bme_regs
              /\ \E done \in bme280_read_forced(measured, calib_data, sensor_data,
                                                wr_ok, rd_ok) :
                    /\ ret' = done.ret
                    /\ sensor_data' = done.data
                    /\ forced' = done.comp
    /\ pc' = "sensor_read"
    /\ UNCHANGED <<tierVars, mainVars, obsVars, regs, current_time, target_seconds, alarm,
                   wake_log, calib_data, calib_load, bleVars>>

\* main_thread after the call: on a non-zero return the defaults replace whatever
\* the call left in sensor_data
SensorFallback ==
    /\ pc = "sensor_read"
    /\ sensor_data' = IF ret = 0 THEN sensor_data ELSE SensorDefaults
    /\ pc' = "advertise"
    /\ UNCHANGED <<tierVars, mainVars, obsVars, rtcVars, bme_regs, calib_data,
                   calib_load, forced, bleVars>>

\* ret = ble_advertiser_start(&sensor_data, battery_mv, current_tier)
AdvertiseStart ==
    /\ pc = "advertise"
    /\ \E radio_ok \in BOOLEAN :
          LET started == ble_advertiser_start(sensor_data, battery_mv, main_current_tier,
                                              adv_data_len, radio, radio_ok)
          IN  /\ ret' = started.ret
              /\ adv_data_len' = started.len
              /\ radio' = started.radio
    /\ pc' = "adv_wait"
    /\ UNCHANGED <<tierVars, mainVars, obsVars, regs, current_time, target_seconds, alarm,
                   wake_log, bmeVars>>

\* k_sleep(K_MSEC(ADV_DURATION_MS)), then ble_advertiser_stop(), return value dropped
AdvertiseStop ==
    /\ pc = "adv_wait"
    /\ \E ok \in BOOLEAN : radio' = ble_advertiser_stop(radio, ok)
    /\ pc' = "clear_alarm"
    /\ UNCHANGED <<tierVars, mainVars, obsVars, rtcVars, bmeVars, adv_data_len>>

\* adaptive_scheduler_set_next_wake, first statement: rv3028_clear_alarm(), whose
\* return value is dropped
ClearAlarm ==
    /\ pc = "clear_alarm"
    /\ \E rd_ok \in BOOLEAN, wr_ok \in BOOLEAN :
          LET ctrl2 == rv3028_read_reg8(regs, RV3028_REG_CONTROL2, rd_ok)
          IN  /\ regs' = rv3028_write_reg(regs, RV3028_REG_CONTROL2,
                                          And8(ctrl2, Not8(RV3028_CTRL2_AF)), wr_ok)
              /\ wake_log' = <<BusRead(RV3028_REG_CONTROL2, 1, rd_ok),
                               BusWrite(RV3028_REG_CONTROL2, 1, wr_ok)>>
    /\ pc' = "get_time"
    /\ UNCHANGED <<tierVars, mainVars, obsVars, current_time, target_seconds, alarm, ret>>
    /\ UNCHANGED <<bmeVars, bleVars>>

\* main_thread returning when adaptive_scheduler_set_next_wake reports a failed time
\* read, as it does for a failed initialisation
GetTimeFatal ==
    /\ pc = "get_time"
    /\ \E ok \in BOOLEAN :
       /\ wake_log' = Append(wake_log, BusRead(RV3028_REG_SECONDS, 7, ok))
       /\ IF ok
          THEN LET t == DecodeTime(regs)
                   ta == TargetAlarm(t, next_wake_interval \div 1000)
               IN  /\ current_time' = t
                   /\ target_seconds' = ta.target
                   /\ alarm' = [seconds |-> ta.seconds, minutes |-> ta.minutes,
                                hours |-> ta.hours, weekday |-> ta.weekday,
                                date |-> ta.date]
                   /\ pc' = "set_alarm"
                   /\ ret' = ret
          ELSE /\ ret' = BusError
               /\ pc' = "exited"
               /\ UNCHANGED <<current_time, target_seconds, alarm>>
    /\ UNCHANGED <<tierVars, mainVars, obsVars, regs>>
    /\ UNCHANGED <<bmeVars, bleVars>>

\* rv3028_set_wakeup_time going on to the alarm whatever rv3028_get_time returned
GetTimeUnchecked ==
    /\ pc = "get_time"
    /\ \E ok \in BOOLEAN :
       /\ wake_log' = Append(wake_log, BusRead(RV3028_REG_SECONDS, 7, ok))
       /\ LET t == DecodeTime(regs)
              ta == TargetAlarm(t, next_wake_interval \div 1000)
          IN  /\ current_time' = t
              /\ target_seconds' = ta.target
              /\ alarm' = [seconds |-> ta.seconds, minutes |-> ta.minutes,
                           hours |-> ta.hours, weekday |-> ta.weekday,
                           date |-> ta.date]
              /\ pc' = "set_alarm"
              /\ ret' = ret
    /\ UNCHANGED <<tierVars, mainVars, obsVars, regs>>
    /\ UNCHANGED <<bmeVars, bleVars>>

\* rv3028_set_wakeup_time(interval_ms / 1000): rv3028_get_time, then the target and
\* the alarm fields; a failed read returns its error through set_next_wake to main
GetTime ==
    /\ pc = "get_time"
    /\ \E ok \in BOOLEAN :
       /\ wake_log' = Append(wake_log, BusRead(RV3028_REG_SECONDS, 7, ok))
       /\ IF ok
          THEN LET t == DecodeTime(regs)
                   ta == TargetAlarm(t, next_wake_interval \div 1000)
               IN  /\ current_time' = t
                   /\ target_seconds' = ta.target
                   /\ alarm' = [seconds |-> ta.seconds, minutes |-> ta.minutes,
                                hours |-> ta.hours, weekday |-> ta.weekday,
                                date |-> ta.date]
                   /\ pc' = "set_alarm"
                   /\ ret' = ret
          ELSE /\ ret' = BusError
               /\ pc' = "soft_off"
               /\ UNCHANGED <<current_time, target_seconds, alarm>>
    /\ UNCHANGED <<tierVars, mainVars, obsVars, regs>>
    /\ UNCHANGED <<bmeVars, bleVars>>

\* rv3028_set_alarm(&alarm): i2c_write of the five data bytes
SetAlarm ==
    /\ pc = "set_alarm"
    /\ \E ok \in BOOLEAN :
       /\ wake_log' = Append(wake_log, BusWrite(AlarmBytes(alarm)[1], 4, ok))
       /\ IF ok
          THEN /\ regs' = I2cWrite(regs, AlarmBytes(alarm))
               /\ pc' = "enable_int"
               /\ ret' = ret
          ELSE /\ ret' = BusError
               /\ pc' = "soft_off"
               /\ regs' = regs
    /\ UNCHANGED <<tierVars, mainVars, obsVars, current_time, target_seconds, alarm>>
    /\ UNCHANGED <<bmeVars, bleVars>>

\* rv3028_enable_alarm_interrupt(): its return value is set_wakeup_time's
EnableInt ==
    /\ pc = "enable_int"
    /\ \E rd_ok \in BOOLEAN, wr_ok \in BOOLEAN :
          LET ctrl2 == rv3028_read_reg8(regs, RV3028_REG_CONTROL2, rd_ok)
          IN  /\ regs' = rv3028_write_reg(regs, RV3028_REG_CONTROL2,
                                          Or8(ctrl2, RV3028_CTRL2_AIE), wr_ok)
              /\ ret' = IF wr_ok THEN 0 ELSE BusError
              /\ wake_log' = wake_log \o <<BusRead(RV3028_REG_CONTROL2, 1, rd_ok),
                                            BusWrite(RV3028_REG_CONTROL2, 1, wr_ok)>>
    /\ pc' = "soft_off"
    /\ UNCHANGED <<tierVars, mainVars, obsVars, current_time, target_seconds, alarm>>
    /\ UNCHANGED <<bmeVars, bleVars>>

\* pm_state_force(0u, PM_STATE_SOFT_OFF) did not take the system down: k_sleep(100)
\* returns and the loop comes round, the statics and main's locals kept, the locals
\* of rv3028_set_wakeup_time gone, the clock showing a later time of T
LoopAgain(T) ==
    /\ pc = "soft_off"
    /\ pc' = "read_battery"
    /\ \E t \in T : regs' = ClockShows(regs, t)
    /\ current_time' = NoTime
    /\ target_seconds' = 0
    /\ alarm' = NoAlarm
    /\ wake_log' = <<>>
    /\ UNCHANGED <<tierVars, mainVars, obsVars, ret>>
    /\ forced' = NotCompensated
    /\ UNCHANGED <<bme_regs, calib_data, calib_load, sensor_data, bleVars>>

----------------------------------------------------------------------------
(* SpecEval: one adaptive_scheduler_get_tier call on every 16-bit reading and   *)
(* every stored tier                                                          *)

\* a register file with every register 0
ZeroRegs == [a \in RegAddrs |-> 0]

\* the clock side at rest
RtcIdle ==
    /\ regs = ZeroRegs
    /\ current_time = NoTime
    /\ target_seconds = 0
    /\ alarm = NoAlarm
    /\ ret = 0
    /\ wake_log = <<>>

\* the sensor and the beacon side after a successful initialisation on the
\* reference device, no sample taken yet
SensorIdle ==
    /\ bme_regs = [ReferenceImage EXCEPT ![BME280_REG_CTRL_HUM] = BME280_CTRL_HUM_OSRS_H_1X,
                                         ![BME280_REG_CTRL_MEAS] = CtrlMeasForced]
    /\ calib_data = LoadedCalib(ReferenceImage, {})
    /\ calib_load = [id |-> "read", done |-> TRUE, failed |-> {}, ret |-> 0]
    /\ sensor_data = NoSample
    /\ forced = NotCompensated
    /\ adv_data_len = 0
    /\ radio = RadioOff

InitEval ==
    /\ pc = "get_tier"
    /\ battery_mv \in 0..UINT16_MAX
    /\ current_tier \in PowerTiers
    /\ tier_before = current_tier
    /\ main_current_tier = current_tier
    /\ next_wake_interval = 0
    /\ ObserveInit(current_tier)
    /\ RtcIdle
    /\ SensorIdle

NextEval == GetTier(FALSE) \/ GetInterval

SpecEval == InitEval /\ [][NextEval]_vars

(* SpecInterval: one adaptive_scheduler_get_interval call on every argument   *)
(* of TierArgs, the enumerators and values outside them                       *)

MaxTierArg == 8

TierArgs == (0 - 2)..MaxTierArg

InitInterval ==
    /\ pc = "get_interval"
    /\ main_current_tier \in TierArgs
    /\ battery_mv \in SampleMv
    /\ current_tier \in PowerTiers
    /\ tier_before = current_tier
    /\ next_wake_interval = 0
    /\ ObserveInit(current_tier)
    /\ RtcIdle
    /\ SensorIdle

NextInterval == GetInterval

SpecInterval == InitInterval /\ [][NextInterval]_vars

(* SpecTier: the tier steps of the loop on every sequence of sampled readings, *)
(* from every tier; the rest of a cycle is one step                           *)

\* a cycle's steps after the interval lookup, none of which touches the tier
RestOfCycle ==
    /\ pc = "read_sensor"
    /\ pc' = "read_battery"
    /\ UNCHANGED <<tierVars, mainVars, obsVars, rtcVars>>
    /\ UNCHANGED <<bmeVars, bleVars>>

InitTier ==
    /\ pc = "read_battery"
    /\ battery_mv = 0
    /\ current_tier \in PowerTiers
    /\ tier_before = current_tier
    /\ main_current_tier = current_tier
    /\ next_wake_interval = 0
    /\ ObserveInit(current_tier)
    /\ RtcIdle
    /\ SensorIdle

NextTier == ReadBattery(SampleMv) \/ GetTier(TRUE) \/ GetInterval \/ RestOfCycle

SpecTier == InitTier /\ [][NextTier]_vars

(* SpecWake: one adaptive_scheduler_set_next_wake call on sampled clock times, *)
(* intervals and register contents, every bus transaction free to fail        *)

\* the days of the sampled clock times
SampleDays ==
    {[weekday |-> 2, date |-> 15, month |-> 6, year |-> 2025],
     [weekday |-> 6, date |-> 31, month |-> 12, year |-> 2099]}

\* every hour; the minutes around each interval's distance to the full hour; seconds
\* whose decimal-coded byte is the address of a time, an alarm and a control register
\* or of none
SampleMinutes == {0, 29, 30, 44, 45, 54, 55, 58, 59}
SampleSeconds == {0, 7, 10, 30, 59}

WakeTimes ==
    {[seconds |-> s, minutes |-> m, hours |-> h, weekday |-> d.weekday,
      date |-> d.date, month |-> d.month, year |-> d.year] :
        s \in SampleSeconds, m \in SampleMinutes, h \in 0..23, d \in SampleDays}

\* the four intervals of the table, and others: none, under a minute, a whole day
WakeIntervals ==
    {0, 59999, WAKE_INTERVAL_NORMAL, WAKE_INTERVAL_CONSERVE, WAKE_INTERVAL_RESERVE,
     WAKE_INTERVAL_SURVIVAL, 86400000}

\* control-2 as a call may find it: clear, or with the alarm flag and the alarm
\* interrupt enable left by an earlier cycle
SampleControl2 == {0, RV3028_CTRL2_AF + RV3028_CTRL2_AIE}

InitWake ==
    /\ pc = "clear_alarm"
    /\ battery_mv = 0
    /\ current_tier = POWER_TIER_NORMAL
    /\ tier_before = current_tier
    /\ main_current_tier = current_tier
    /\ next_wake_interval \in WakeIntervals
    /\ ObserveInit(current_tier)
    /\ \E t \in WakeTimes, c2 \in SampleControl2 :
          regs = ClockShows([ZeroRegs EXCEPT ![RV3028_REG_CONTROL2] = c2], t)
    /\ current_time = NoTime
    /\ target_seconds = 0
    /\ alarm = NoAlarm
    /\ ret = 0
    /\ wake_log = <<>>
    /\ SensorIdle

NextWake == ClearAlarm \/ GetTime \/ SetAlarm \/ EnableInt

SpecWake == InitWake /\ [][NextWake]_vars

(* Spec: main_thread from boot, wake cycle after wake cycle *)

\* the clock times the program finds at boot and after a sleep
BootTimes ==
    {[seconds |-> 0, minutes |-> 58, hours |-> 23, weekday |-> 2, date |-> 15,
      month |-> 6, year |-> 2025],
     [seconds |-> 7, minutes |-> 15, hours |-> 8, weekday |-> 3, date |-> 16,
      month |-> 6, year |-> 2025]}

\* the statics and locals as the C runtime leaves them at program start
ProgramStart ==
    /\ pc = "boot"
    /\ current_tier = POWER_TIER_NORMAL
    /\ tier_before = POWER_TIER_NORMAL
    /\ battery_mv = 0
    /\ main_current_tier = POWER_TIER_NORMAL
    /\ next_wake_interval = 0
    /\ ObserveInit(POWER_TIER_NORMAL)
    /\ current_time = NoTime
    /\ target_seconds = 0
    /\ alarm = NoAlarm
    /\ ret = 0
    /\ wake_log = <<>>
    /\ calib_data = ZeroCalib
    /\ calib_load = NoLoad
    /\ sensor_data = NoSample
    /\ forced = NotCompensated
    /\ adv_data_len = 0
    /\ radio = RadioOff

Init ==
    /\ ProgramStart
    /\ \E t \in BootTimes, c2 \in SampleControl2 :
          regs = ClockShows([ZeroRegs EXCEPT ![RV3028_REG_CONTROL2] = c2], t)
    /\ bme_regs = ReferenceImage

\* ret = bme280_init(), main_thread returning when it fails; F: the sets of
\* calibration reads that may fail together
InitSensor(F) ==
    /\ pc = "boot"
    /\ \E ready \in BOOLEAN, id_ok \in BOOLEAN, hum_ok \in BOOLEAN, meas_ok \in BOOLEAN,
          failed \in F :
          LET done == bme280_init(bme_regs, calib_data, ready, id_ok, failed,
                                  hum_ok, meas_ok)
          IN  /\ bme_regs' = done.regs
              /\ calib_data' = done.calib
              /\ calib_load' = done.load
              /\ ret' = done.ret
              /\ pc' = IF done.ret = 0 THEN "init_clock" ELSE "exited"
    /\ UNCHANGED <<tierVars, mainVars, obsVars, regs, current_time, target_seconds, alarm,
                   wake_log, sensor_data, forced, bleVars>>

\* main_thread's initialisation after bme280_init: battery_monitor_init,
\* adaptive_scheduler_init (rv3028_init, then the interrupt pin), ble_advertiser_init.
\* Any of them failing ends main_thread.  rv3028_init reads control-1 and control-2
\* (0 on a failed read) and writes both back, return values dropped.
Boot ==
    /\ pc = "init_clock"
    /\ \E before_ok \in BOOLEAN, after_ok \in BOOLEAN,
          r1 \in BOOLEAN, r2 \in BOOLEAN, w1 \in BOOLEAN, w2 \in BOOLEAN :
          IF ~before_ok
          THEN pc' = "exited" /\ regs' = regs
          ELSE LET ctrl1 == rv3028_read_reg8(regs, RV3028_REG_CONTROL1, r1)
                   ctrl2 == rv3028_read_reg8(regs, RV3028_REG_CONTROL2, r2)
                   regs1 == rv3028_write_reg(regs, RV3028_REG_CONTROL1,
                                Or8(ctrl1, RV3028_CTRL1_12_24 + RV3028_CTRL1_CLKINT), w1)
                   clr   == RV3028_CTRL2_AF + RV3028_CTRL2_TF + RV3028_CTRL2_UF
               IN  /\ regs' = rv3028_write_reg(regs1, RV3028_REG_CONTROL2,
                                               And8(ctrl2, Not8(clr)), w2)
                   /\ pc' = IF after_ok THEN "read_battery" ELSE "exited"
    /\ UNCHANGED <<tierVars, mainVars, obsVars, current_time, target_seconds, alarm, ret,
                   wake_log, bmeVars, bleVars>>

\* a wake that keeps the static current_tier (a static placed in retained memory)
ResetRetained(T) ==
    /\ pc = "soft_off"
    /\ pc' = "boot"
    /\ battery_mv' = 0
    /\ main_current_tier' = POWER_TIER_NORMAL
    /\ next_wake_interval' = 0
    /\ current_time' = NoTime
    /\ target_seconds' = 0
    /\ alarm' = NoAlarm
    /\ ret' = 0
    /\ wake_log' = <<>>
    /\ \E t \in T : regs' = ClockShows(regs, t)
    /\ calib_data' = ZeroCalib
    /\ calib_load' = NoLoad
    /\ sensor_data' = NoSample
    /\ forced' = NotCompensated
    /\ adv_data_len' = 0
    /\ radio' = RadioOff
    /\ UNCHANGED <<tierVars, obsVars, bme_regs>>

\* pm_state_force(0u, PM_STATE_SOFT_OFF) took the system down and it wakes: the
\* program starts anew, its statics and locals initialised; the clock has kept its
\* registers and shows a later time of T
Reset(T) ==
    /\ pc = "soft_off"
    /\ pc' = "boot"
    /\ current_tier' = POWER_TIER_NORMAL
    /\ tier_before' = POWER_TIER_NORMAL
    /\ battery_mv' = 0
    /\ main_current_tier' = POWER_TIER_NORMAL
    /\ next_wake_interval' = 0
    /\ current_time' = NoTime
    /\ target_seconds' = 0
    /\ alarm' = NoAlarm
    /\ ret' = 0
    /\ wake_log' = <<>>
    /\ \E t \in T : regs' = ClockShows(regs, t)
    /\ calib_data' = ZeroCalib
    /\ calib_load' = NoLoad
    /\ sensor_data' = NoSample
    /\ forced' = NotCompensated
    /\ adv_data_len' = 0
    /\ radio' = RadioOff
    /\ UNCHANGED <<obsVars, bme_regs>>

Next ==
    \/ InitSensor(BootCalibFailures)
    \/ Boot
    \/ ReadBattery(SampleMv)
    \/ GetTier(FALSE)
    \/ GetInterval
    \/ ReadForced(BootSamples)
    \/ SensorFallback
    \/ AdvertiseStart
    \/ AdvertiseStop
    \/ ClearAlarm
    \/ GetTime
    \/ SetAlarm
    \/ EnableInt
    \/ LoopAgain(BootTimes)
    \/ Reset(BootTimes)

Spec == Init /\ [][Next]_vars

(* SpecCalib: bme280_init on devices holding every byte value in the first     *)
(* register of a coefficient and sampled ones in the second, no calibration   *)
(* read failing                                                               *)

\* a register file with a in the first register of every coefficient (and 255 - a in
\* 0xE6, the first of dig_H5 the driver reads), b in the second; the chip id and the
\* control and data registers as ReferenceImage has them
PatternImage(a, b) ==
    [x \in BmeAddrs |->
        IF x \in BME280_REG_DIG_T1..(BME280_REG_DIG_P9 + 1)
        THEN (IF x % 2 = 0 THEN a ELSE b)
        ELSE IF x \in {BME280_REG_DIG_H1, BME280_REG_DIG_H2, BME280_REG_DIG_H3,
                       BME280_REG_DIG_H4}
        THEN a
        ELSE IF x = BME280_REG_DIG_H5 + 1 THEN 255 - a
        ELSE IF x \in {BME280_REG_DIG_H2 + 1, BME280_REG_DIG_H5, BME280_REG_DIG_H6}
        THEN b
        ELSE ReferenceImage[x]]

\* the clock at the first boot time
BootClock == ClockShows(ZeroRegs, CHOOSE t \in BootTimes : t.seconds = 0)

\* bytes with every pair of nibble values next to the ends of the signed and the
\* unsigned range
SecondBytes ==
    {(16 * hi) + lo : hi \in {0, 1, 7, 8, 15}, lo \in 0..15}
        \cup {(16 * hi) + lo : hi \in 0..15, lo \in {0, 1, 7, 8, 15}}

InitCalib ==
    /\ ProgramStart
    /\ regs = BootClock
    /\ bme_regs \in {PatternImage(a, b) : a \in 0..255, b \in SecondBytes}

NextCalib == InitSensor({{}})

SpecCalib == InitCalib /\ [][NextCalib]_vars

(* SpecCalibFail: bme280_init with calibration reads failing                   *)

\* the sets of calibration reads that fail together: at most two of them, or all but
\* at most two
CalibFailureSets ==
    LET few == {f \in SUBSET CalibReads : Cardinality(f) <= 2}
    IN  few \cup {CalibReads \ f : f \in few}

\* devices with no coefficient byte 0, so that a coefficient of 0 tells a failed read
CalibFailImages == {ReferenceImage, PatternImage(165, 60), PatternImage(255, 255)}

InitCalibFail ==
    /\ ProgramStart
    /\ regs = BootClock
    /\ bme_regs \in CalibFailImages

NextCalibFail == InitSensor(CalibFailureSets)

SpecCalibFail == InitCalibFail /\ [][NextCalibFail]_vars

(* SpecSensor: one bme280_read_forced call and main_thread's fallback, on      *)
(* sampled devices, calibration loads and measurements                        *)

\* v with its two bytes exchanged, as a signed or an unsigned 16-bit value
Swapped(v) == (Lo(v) * 256) + Hi(v)
SwappedSigned(v) == ToInt16(Swapped(v))

\* the device whose registers the driver loads as ReferenceCoefficients
SwappedCoefficients ==
    [dig_T1 |-> Swapped(ReferenceCoefficients.dig_T1),
     dig_T2 |-> SwappedSigned(ReferenceCoefficients.dig_T2),
     dig_T3 |-> SwappedSigned(ReferenceCoefficients.dig_T3),
     dig_P1 |-> Swapped(ReferenceCoefficients.dig_P1),
     dig_P2 |-> SwappedSigned(ReferenceCoefficients.dig_P2),
     dig_P3 |-> SwappedSigned(ReferenceCoefficients.dig_P3),
     dig_P4 |-> SwappedSigned(ReferenceCoefficients.dig_P4),
     dig_P5 |-> SwappedSigned(ReferenceCoefficients.dig_P5),
     dig_P6 |-> SwappedSigned(ReferenceCoefficients.dig_P6),
     dig_P7 |-> SwappedSigned(ReferenceCoefficients.dig_P7),
     dig_P8 |-> SwappedSigned(ReferenceCoefficients.dig_P8),
     dig_P9 |-> SwappedSigned(ReferenceCoefficients.dig_P9),
     dig_H1 |-> ReferenceCoefficients.dig_H1,
     dig_H2 |-> SwappedSigned(ReferenceCoefficients.dig_H2),
     dig_H3 |-> ReferenceCoefficients.dig_H3,
     dig_H4 |-> ReferenceCoefficients.dig_H4,
     dig_H5 |-> ReferenceCoefficients.dig_H5,
     dig_H6 |-> ReferenceCoefficients.dig_H6]

\* the sampled devices: the two above, each also with other values of dig_H1
SensorCoefficients ==
    {[k EXCEPT !.dig_H1 = h] :
        k \in {ReferenceCoefficients, SwappedCoefficients}, h \in {0, 75, 255}}

\* the calibration reads that failed at boot: none, the one of dig_P1, all
SensorCalibFailures == {{}, {"P1"}, CalibReads}

\* the measurements: the reset values of the data registers, a measurement in room
\* conditions, and the ends of the raw ranges
SensorSamples ==
    {SampleBytes(adc_P, adc_T, adc_H) :
        adc_P \in {0, 415148, 524288},
        adc_T \in {0, 519888, 524288, 1048575},
        adc_H \in {0, 30000, 32768, 65535}}

InitSensorRead ==
    /\ pc = "read_sensor"
    /\ battery_mv = 3700
    /\ current_tier = POWER_TIER_NORMAL
    /\ tier_before = current_tier
    /\ main_current_tier = current_tier
    /\ next_wake_interval = WAKE_INTERVAL_NORMAL
    /\ ObserveInit(current_tier)
    /\ RtcIdle
    /\ \E k \in SensorCoefficients, failed \in SensorCalibFailures :
          /\ bme_regs = [DeviceImage(k) EXCEPT
                            ![BME280_REG_CTRL_HUM] = BME280_CTRL_HUM_OSRS_H_1X,
                            ![BME280_REG_CTRL_MEAS] = CtrlMeasForced]
          /\ calib_data = LoadedCalib(bme_regs, failed)
          /\ calib_load = [id |-> "read", done |-> TRUE, failed |-> failed, ret |-> 0]
    /\ sensor_data \in {NoSample, SensorDefaults}
    /\ forced = NotCompensated
    /\ adv_data_len = 0
    /\ radio = RadioOff

NextSensor == ReadForced(SensorSamples) \/ SensorFallback

SpecSensor == InitSensorRead /\ [][NextSensor]_vars

(* SpecBcd: one rv3028_set_time call on times with every value of each field  *)

RV3028_CTRL2_STOP == 1

\* an i2c_write of the bytes buf issued to the clock and its outcome: the device
\* takes buf[1] for the register address
BusWriteBytes(buf, ok) ==
    [op |-> "write", reg |-> buf[1], len |-> Len(buf) - 1, ok |-> ok, bytes |-> buf]

\* rv3028_set_time(&current_time): the seven bytes encoded, the clock stopped, the
\* bytes handed to i2c_write as they are, the clock started; only a failure of the
\* data write is reported
SetTime ==
    /\ pc = "set_time"
    /\ \E rd_ok \in BOOLEAN, stop_ok \in BOOLEAN, wr_ok \in BOOLEAN, start_ok \in BOOLEAN :
          LET data    == EncodeTime(current_time)
              ctrl2   == Or8(rv3028_read_reg8(regs, RV3028_REG_CONTROL2, rd_ok),
                             RV3028_CTRL2_STOP)
              stopped == rv3028_write_reg(regs, RV3028_REG_CONTROL2, ctrl2, stop_ok)
              written == I2cWrite(stopped, data)
              started == rv3028_write_reg(written, RV3028_REG_CONTROL2,
                                          And8(ctrl2, Not8(RV3028_CTRL2_STOP)), start_ok)
              head    == <<BusRead(RV3028_REG_CONTROL2, 1, rd_ok),
                           BusWrite(RV3028_REG_CONTROL2, 1, stop_ok),
                           BusWriteBytes(data, wr_ok)>>
          IN  IF ~wr_ok
              THEN /\ regs' = stopped
                   /\ ret' = BusError
                   /\ wake_log' = head
              ELSE /\ regs' = started
                   /\ ret' = 0
                   /\ wake_log' = Append(head, BusWrite(RV3028_REG_CONTROL2, 1, start_ok))
    /\ pc' = "time_set"
    /\ UNCHANGED <<tierVars, mainVars, obsVars, current_time, target_seconds, alarm,
                   bmeVars, bleVars>>

\* the least, a middle and the greatest time of the clock's century
BcdBases ==
    {[seconds |-> 0, minutes |-> 0, hours |-> 0, weekday |-> 0, date |-> 1,
      month |-> 1, year |-> 2000],
     [seconds |-> 30, minutes |-> 45, hours |-> 12, weekday |-> 3, date |-> 15,
      month |-> 6, year |-> 2025],
     [seconds |-> 59, minutes |-> 59, hours |-> 23, weekday |-> 6, date |-> 31,
      month |-> 12, year |-> 2099]}

\* the times passed: each field over its whole range, the others as in a base
BcdTimes ==
    UNION {{[b EXCEPT !.seconds = v] : v \in 0..59}
               \cup {[b EXCEPT !.minutes = v] : v \in 0..59}
               \cup {[b EXCEPT !.hours = v] : v \in 0..23}
               \cup {[b EXCEPT !.weekday = v] : v \in 0..6}
               \cup {[b EXCEPT !.date = v] : v \in 1..31}
               \cup {[b EXCEPT !.month = v] : v \in 1..12}
               \cup {[b EXCEPT !.year = v] : v \in 2000..2099} : b \in BcdBases}

InitBcd ==
    /\ pc = "set_time"
    /\ battery_mv = 0
    /\ current_tier = POWER_TIER_NORMAL
    /\ tier_before = current_tier
    /\ main_current_tier = current_tier
    /\ next_wake_interval = 0
    /\ ObserveInit(current_tier)
    /\ \E c2 \in SampleControl2 : regs = [BootClock EXCEPT ![RV3028_REG_CONTROL2] = c2]
    /\ current_time \in BcdTimes
    /\ target_seconds = 0
    /\ alarm = NoAlarm
    /\ ret = 0
    /\ wake_log = <<>>
    /\ SensorIdle

SpecBcd == InitBcd /\ [][SetTime]_vars

\* Devices answering the chip-id register with any byte, the rest as the reference part;
\* the only step is the sensor initialisation of main()
InitChip ==
    /\ ProgramStart /\ regs = BootClock
    /\ bme_regs \in {[ReferenceImage EXCEPT ![BME280_REG_CHIP_ID] = id] : id \in 0..255}
SpecChip == InitChip /\ [][InitSensor({{}})]_vars

(* SpecRepeat: adaptive_scheduler_get_tier called again and again with one    *)
(* reading, from every tier and on every 16-bit reading                       *)

\* the calls followed
MaxCalls == 5

\* adaptive_scheduler_get_tier(battery_mv) once more, with the reading of the call
\* before it
EvaluateAgain ==
    /\ pc = "get_tier"
    /\ Len(tier_log) <= MaxCalls
    /\ tier_before' = current_tier
    /\ current_tier' = adaptive_scheduler_get_tier(battery_mv, current_tier)
    /\ main_current_tier' = current_tier'
    /\ tier_log' = Append(tier_log, current_tier')
    /\ UNCHANGED <<pc, battery_mv, next_wake_interval, mv_lo, mv_hi, went_up, went_down,
                   script_pos, rtcVars, bmeVars, bleVars>>

SpecRepeat == InitEval /\ [][EvaluateAgain]_vars

(* SpecReset: main_thread from boot with every soft-off ending in a reset, as   *)
(* the hardware does it: no wake cycle follows another within one run         *)

SpecReset ==
    Init /\ [][\/ InitSensor(BootCalibFailures)
               \/ Boot
               \/ ReadBattery(SampleMv)
               \/ GetTier(FALSE)
               \/ GetInterval
               \/ ReadForced(BootSamples)
               \/ SensorFallback
               \/ AdvertiseStart
               \/ AdvertiseStop
               \/ ClearAlarm
               \/ GetTime
               \/ SetAlarm
               \/ EnableInt
               \/ Reset(BootTimes)]_vars

(* SpecBranch: bme280_read_forced on devices whose calibration makes var1 of    *)
(* the pressure a small number, on raw pressures across the 20-bit range      *)

\* var1 of the sampled devices
MaxVar1 == 8

\* devices with every coefficient 0 but dig_P1, and dig_P1 stored so that the driver
\* loads 1..MaxVar1 (t_fine is 0, var2 is 0, var1 at the guard is the loaded dig_P1);
\* and the reference device
BranchCoefficients ==
    {[ZeroCalib EXCEPT !.dig_P1 = 256 * n] : n \in 1..MaxVar1} \cup {ReferenceCoefficients}

\* raw pressures at the ends of the range, either side of the value at which the
\* intermediate of the blank devices reaches 0x80000000, and in between
BranchSamples ==
    {SampleBytes(adc_P, adc_T, adc_H) :
        adc_P \in {0, 1, 100000, 361381, 361382, 415148, 524288, 1048575},
        adc_T \in {0, 519888},
        adc_H \in {0, 30000}}

InitBranch ==
    /\ pc = "read_sensor"
    /\ battery_mv = 3700
    /\ current_tier = POWER_TIER_NORMAL
    /\ tier_before = current_tier
    /\ main_current_tier = current_tier
    /\ next_wake_interval = WAKE_INTERVAL_NORMAL
    /\ ObserveInit(current_tier)
    /\ RtcIdle
    /\ \E k \in BranchCoefficients :
          /\ bme_regs = [DeviceImage(k) EXCEPT
                            ![BME280_REG_CTRL_HUM] = BME280_CTRL_HUM_OSRS_H_1X,
                            ![BME280_REG_CTRL_MEAS] = CtrlMeasForced]
          /\ calib_data = LoadedCalib(bme_regs, {})
    /\ calib_load = [id |-> "read", done |-> TRUE, failed |-> {}, ret |-> 0]
    /\ sensor_data = NoSample
    /\ forced = NotCompensated
    /\ adv_data_len = 0
    /\ radio = RadioOff

SpecBranch == InitBranch /\ [][ReadForced(BranchSamples) \/ SensorFallback]_vars

----------------------------------------------------------------------------
(* The claims.  Their thresholds, ladder and tables are written out from the *)
(* claims' own words, not taken from the definitions above.                 *)

\* the ladder as the claims state it
ClaimLadder(mv) ==
    IF mv >= 3800 THEN 0 ELSE IF mv >= 3600 THEN 1 ELSE IF mv >= 3400 THEN 2 ELSE 3

\* the low threshold of leaving tier cur downward (cur # Survival)
ClaimLowOf(cur) == CASE cur = 0 -> 3600 [] cur = 1 -> 3400 [] cur = 2 -> 3200

\* the high threshold of the tier immediately above cur (cur # Normal)
ClaimHighAbove(cur) == CASE cur = 1 -> 3800 [] cur = 2 -> 3600 [] cur = 3 -> 3400

\* C1: from Normal, whatever the readings, each call leaves one of the four tiers, and
\* its ordinal differs from the tier held before the call by at most 1.
C1_OneStepPerCall ==
    pc = "get_interval" =>
        /\ current_tier \in {0, 1, 2, 3}
        /\ main_current_tier = current_tier
        /\ current_tier - tier_before \in {0 - 1, 0, 1}

\* Survival, reached from Normal, fed a reading of the Normal band: three ladder tiers
\* away, and the call moved one
C1_Witness ==
    /\ pc = "get_interval"
    /\ tier_before = POWER_TIER_SURVIVAL
    /\ battery_mv = 4000
    /\ current_tier = POWER_TIER_RESERVE

\* C2: descent rule.  After a call, with naive the ladder tier of the reading: naive
\* equal to the tier held before gives that tier; naive more conserving gives the
\* next tier exactly when the reading is at or below the low threshold of the tier
\* held before, and that tier otherwise.  For every reading 0..65535 and every tier.
C2_DescentRule ==
    pc = "get_interval" =>
        LET naive == ClaimLadder(battery_mv)
        IN  /\ (naive = tier_before => current_tier = tier_before)
            /\ (naive > tier_before =>
                    current_tier = IF battery_mv <= ClaimLowOf(tier_before)
                                   THEN tier_before + 1
                                   ELSE tier_before)

\* a drop of three ladder tiers from Normal has moved the tier one step only
C2_Witness ==
    /\ pc = "get_interval"
    /\ tier_before = POWER_TIER_NORMAL
    /\ battery_mv = 3000
    /\ current_tier = POWER_TIER_CONSERVE

\* C3: recovery rule.  After a call whose ladder tier is less conserving than the
\* tier held before, the result is the tier one step toward Normal exactly when the
\* reading is at or above the high threshold of the tier immediately above, and the
\* tier held before otherwise.  For every reading 0..65535 and every tier.
C3_RecoveryRule ==
    pc = "get_interval" /\ ClaimLadder(battery_mv) < tier_before =>
        current_tier = IF battery_mv >= ClaimHighAbove(tier_before)
                       THEN tier_before - 1
                       ELSE tier_before

\* Survival with a reading of the Normal band recovered one step, to Reserve
C3_Witness ==
    /\ pc = "get_interval"
    /\ tier_before = POWER_TIER_SURVIVAL
    /\ battery_mv = 4000
    /\ current_tier = POWER_TIER_RESERVE

\* the tiers the worked example gives for ReadingScript
ScriptTiers == <<0, 0, 1, 1, 2, 1>>

\* C4: from Normal, the readings 4000, 3700, 3550, 3550, 3300, 3650 fed to successive
\* calls give Normal, Normal, Conserve, Conserve, Reserve, Conserve.
C4_WorkedExample ==
    script_pos \in 1..Len(ReadingScript) => current_tier = ScriptTiers[script_pos]

\* the whole script has been fed
C4_Witness ==
    /\ script_pos = Len(ReadingScript)
    /\ battery_mv = 3650
    /\ tier_before = POWER_TIER_RESERVE
    /\ current_tier = POWER_TIER_CONSERVE

\* C5: no flapping.  While all readings fed since the start lie in a window narrower
\* than 200 mV, the tier has moved in one direction only (so it never returns to a
\* value it has left), from any starting tier.
C5_NoFlapping ==
    mv_hi - mv_lo < 200 => ~(went_up /\ went_down)

\* readings on both sides of the Normal/Conserve band, 199 mV apart, after a descent
C5_Witness ==
    /\ mv_lo = 3600
    /\ mv_hi = 3799
    /\ went_up
    /\ current_tier = POWER_TIER_CONSERVE
    /\ tier_before = POWER_TIER_CONSERVE
    /\ pc = "get_interval"

\* the four band thresholds
ClaimThresholds == {3800, 3600, 3400, 3200}

\* C6 as stated: a reading exactly equal to a band threshold leaves the tier unchanged,
\* for every current tier.
C6_TouchKeepsTier ==
    pc = "get_interval" /\ battery_mv \in ClaimThresholds => current_tier = tier_before

\* C6 amended: a reading exactly equal to a band threshold counts as crossing it.  The
\* call leaves the tier unchanged only when the ladder tier of that reading is the
\* tier held before (3800 at Normal, 3600 at Conserve, 3400 at Reserve, 3200 at
\* Survival) and otherwise moves it one step toward the ladder tier.
C6_TouchCrosses ==
    pc = "get_interval" /\ battery_mv \in ClaimThresholds =>
        LET naive == ClaimLadder(battery_mv)
        IN  current_tier = IF naive = tier_before THEN tier_before
                           ELSE IF naive > tier_before THEN tier_before + 1
                           ELSE tier_before - 1

\* Normal fed exactly 3600 mV went to Conserve
C6_Witness ==
    /\ pc = "get_interval"
    /\ tier_before = POWER_TIER_NORMAL
    /\ battery_mv = 3600
    /\ current_tier = POWER_TIER_CONSERVE

\* evaluate as the claims C2 and C3 state it
ClaimEvaluate(mv, cur) ==
    LET naive == ClaimLadder(mv)
    IN  IF naive = cur THEN cur
        ELSE IF naive > cur
             THEN (IF mv <= ClaimLowOf(cur) THEN cur + 1 ELSE cur)
             ELSE (IF mv >= ClaimHighAbove(cur) THEN cur - 1 ELSE cur)

\* C7 as stated: a call of evaluate changes no stored tier state.
C7_CallStoresNothing ==
    [][pc = "get_tier" => current_tier' = current_tier]_vars

\* C7 amended: evaluate is handed the reading only; the current tier is the tier the
\* scheduler module stores.  The result is a function only of the reading and the
\* stored tier, and the call itself stores it as the new stored tier.  No other step
\* of the orchestrator changes the stored tier (a restart of the program sets it to
\* Normal).
C7_CallStoresResult ==
    [][/\ pc = "get_tier" =>
             /\ main_current_tier' = ClaimEvaluate(battery_mv, current_tier)
             /\ current_tier' = main_current_tier'
       /\ pc # "get_tier" =>
             \/ current_tier' = current_tier
             \/ pc = "soft_off" /\ pc' = "boot" /\ current_tier' = 0]_vars

\* a call has changed the stored tier, and the orchestrator holds the same value
C7_Witness ==
    /\ pc = "get_interval"
    /\ current_tier # tier_before
    /\ main_current_tier = current_tier

\* the interval table as the claim states it
ClaimInterval(tier) ==
    CASE tier = 0 -> 300000
      [] tier = 1 -> 900000
      [] tier = 2 -> 1800000
      [] tier = 3 -> 3600000
      [] OTHER    -> 300000

\* C8: intervalFor is total and pure.  A call returns 300000, 900000, 1800000, 3600000
\* for Normal, Conserve, Reserve, Survival and 300000 for any other argument, and
\* changes nothing but the caller's variable that receives the result.
C8_IntervalTotalPure ==
    [][pc = "get_interval" =>
          /\ next_wake_interval' = ClaimInterval(main_current_tier)
          /\ UNCHANGED <<tierVars, battery_mv, main_current_tier>>]_vars

\* a call with an argument that is no enumerator has returned the Normal interval
C8_Witness ==
    /\ pc = "read_sensor"
    /\ main_current_tier \notin PowerTiers
    /\ next_wake_interval = 300000

\* a wall-clock reading within the ranges of the claim
ValidClock(t) ==
    /\ t.hours \in 0..23
    /\ t.minutes \in 0..59
    /\ t.seconds \in 0..59
    /\ t.weekday \in 0..6
    /\ t.date \in 1..31

\* rv3028_get_time has succeeded in this call (a time read has a year from 2000 on)
TimeRead == current_time.year >= 2000

\* C9: for every wall-clock reading and interval, programWake computes target =
\* hours*3600 + minutes*60 + seconds + intervalMs/1000 and the alarm hours =
\* (target/3600) mod 24, minutes = (target/60) mod 60, seconds = target mod 60, weekday
\* and date those just read; 23:58:00, weekday 2, date 15 with 300000 ms gives
\* 00:03:00, weekday 2, date 15.
C9_AlarmFields ==
    TimeRead /\ ValidClock(current_time) =>
        LET target == current_time.hours * 3600 + current_time.minutes * 60
                          + current_time.seconds + next_wake_interval \div 1000
        IN  /\ target_seconds = target
            /\ alarm.hours = (target \div 3600) % 24
            /\ alarm.minutes = (target \div 60) % 60
            /\ alarm.seconds = target % 60
            /\ alarm.weekday = current_time.weekday
            /\ alarm.date = current_time.date
            /\ (/\ current_time.hours = 23 /\ current_time.minutes = 58
                /\ current_time.seconds = 0 /\ current_time.weekday = 2
                /\ current_time.date = 15 /\ next_wake_interval = 300000)
               => alarm = [hours |-> 0, minutes |-> 3, seconds |-> 0,
                           weekday |-> 2, date |-> 15]

\* the worked example: read 23:58:00 on weekday 2, date 15, interval 300000 ms
C9_Witness ==
    /\ pc = "set_alarm"
    /\ current_time.hours = 23 /\ current_time.minutes = 58 /\ current_time.seconds = 0
    /\ current_time.weekday = 2 /\ current_time.date = 15
    /\ next_wake_interval = 300000
    /\ alarm = [hours |-> 0, minutes |-> 3, seconds |-> 0, weekday |-> 2, date |-> 15]

\* the length of a month of the calendar the clock keeps
DaysInMonth(month, year) ==
    IF month = 2 THEN (IF year % 4 = 0 THEN 29 ELSE 28)
    ELSE IF month \in {4, 6, 9, 11} THEN 30
    ELSE 31

\* the wall clock d seconds after it showed t (d under a month)
ClockAfter(t, d) ==
    LET tod  == t.hours * 3600 + t.minutes * 60 + t.seconds + d
        days == tod \div 86400
        dim  == DaysInMonth(t.month, t.year)
    IN  [seconds |-> tod % 60,
         minutes |-> (tod \div 60) % 60,
         hours   |-> (tod \div 3600) % 24,
         weekday |-> (t.weekday + days) % 7,
         date    |-> IF t.date + days <= dim THEN t.date + days ELSE t.date + days - dim]

\* the alarm field-match rule on the clock's alarm registers: all five equal the
\* wall clock c
AlarmRegsMatch(r, c) ==
    /\ r[RV3028_REG_ALARM_SEC] = bin_to_bcd(c.seconds)
    /\ r[RV3028_REG_ALARM_MIN] = bin_to_bcd(c.minutes)
    /\ r[RV3028_REG_ALARM_HOUR] = bin_to_bcd(c.hours)
    /\ r[RV3028_REG_ALARM_WEEK] = c.weekday
    /\ r[RV3028_REG_ALARM_DATE] = bin_to_bcd(c.date)

\* the same rule on alarm fields al
AlarmFieldsMatch(al, c) ==
    /\ al.seconds = c.seconds
    /\ al.minutes = c.minutes
    /\ al.hours = c.hours
    /\ al.weekday = c.weekday
    /\ al.date = c.date

\* the time of day read plus the interval stays within the day
WithinDay ==
    current_time.hours * 3600 + current_time.minutes * 60 + current_time.seconds
        + next_wake_interval \div 1000 < 86400

\* C10: under the alarm field-match rule, the alarm programmed by a successful
\* programWake fires at the intended instant (time read + interval) if and only if the
\* time of day read plus the interval is below 86400 s; when the interval crosses
\* midnight the alarm holds the weekday and date read, so it cannot fire before they
\* recur.
C10_FiresAtIntendedInstant ==
    pc = "soft_off" /\ ret = 0 =>
        /\ AlarmRegsMatch(regs, ClockAfter(current_time, next_wake_interval \div 1000))
               <=> WithinDay
        /\ ~WithinDay =>
               /\ regs[RV3028_REG_ALARM_WEEK] = current_time.weekday
               /\ regs[RV3028_REG_ALARM_DATE] = bin_to_bcd(current_time.date)

\* a successful programWake at 10:30:10 on weekday 2, date 15 with 300000 ms: the
\* intended instant 10:35:10 is within the day, and the alarm registers still hold
\* what they held before the call
C10_Witness ==
    /\ pc = "soft_off"
    /\ ret = 0
    /\ current_time.hours = 10 /\ current_time.minutes = 30 /\ current_time.seconds = 10
    /\ current_time.weekday = 2 /\ current_time.date = 15
    /\ next_wake_interval = 300000
    /\ WithinDay
    /\ \A a \in RV3028_REG_ALARM_SEC..RV3028_REG_ALARM_DATE : regs[a] = 0
    /\ ~AlarmRegsMatch(regs, ClockAfter(current_time, next_wake_interval \div 1000))

\* What C10 describes is true of the alarm fields rv3028_set_wakeup_time computes and
\* hands to rv3028_set_alarm, before they go to the bus.
AlarmFieldsMidnightCaveat ==
    TimeRead =>
        /\ AlarmFieldsMatch(alarm, ClockAfter(current_time, next_wake_interval \div 1000))
               <=> WithinDay
        /\ alarm.weekday = current_time.weekday
        /\ alarm.date = current_time.date

\* programWake has returned to the orchestrator, with its result in ret
WakeReturned == pc = "soft_off"

\* every bus transaction of the call so far succeeded
AllBusOk == \A i \in 1..Len(wake_log) : wake_log[i].ok

\* C11: any failed bus transaction of programWake (control-2 read and write of the
\* flag clear, the time read, the alarm-field write, control-2 read and write of the
\* interrupt enable) aborts the call there, so no transaction follows a failed one,
\* and programWake returns success only if every transaction succeeded.
C11_AnyFailureAborts ==
    /\ \A i \in 1..(Len(wake_log) - 1) : wake_log[i].ok
    /\ WakeReturned => (ret = 0 <=> AllBusOk)

\* the control-2 read of the flag clear failed, five more transactions followed and
\* programWake returned success
C11_Witness ==
    /\ WakeReturned
    /\ ret = 0
    /\ Len(wake_log) = 6
    /\ ~wake_log[1].ok
    /\ \A i \in 2..6 : wake_log[i].ok

\* the decimal-coded byte of n: tens digit in the high nibble, units in the low
ClaimBcd(n) == ((n \div 10) * 16) + (n % 10)

\* C12: after programWake returns success, the alarm registers 0x07..0x0B hold the
\* decimal-coded alarm seconds, minutes, hours, weekday and date computed by the call,
\* and control-2 (0x10) has bit 3, the alarm-interrupt enable, set.
C12_AlarmRegistersProgrammed ==
    WakeReturned /\ ret = 0 =>
        /\ regs[7] = ClaimBcd(alarm.seconds)
        /\ regs[8] = ClaimBcd(alarm.minutes)
        /\ regs[9] = ClaimBcd(alarm.hours)
        /\ regs[10] = alarm.weekday
        /\ regs[11] = ClaimBcd(alarm.date)
        /\ (regs[16] \div 8) % 2 = 1

\* programWake succeeded without a bus failure for an alarm at 10:35:10, weekday 2,
\* date 15: the interrupt is enabled and the alarm registers hold no alarm field
C12_Witness ==
    /\ WakeReturned
    /\ ret = 0
    /\ AllBusOk
    /\ alarm = [seconds |-> 10, minutes |-> 35, hours |-> 10, weekday |-> 2, date |-> 15]
    /\ (regs[16] \div 8) % 2 = 1
    /\ \A a \in 7..11 : regs[a] = 0

\* the statements of main_thread that make up the programWake attempt
WakeSteps == {"clear_alarm", "get_time", "set_alarm", "enable_int"}

\* C13: in every wake cycle the orchestrator goes on to the soft-off entry after the
\* programWake attempt, whether it returned success or an error: the attempt ends
\* nowhere else, and from there the only steps are the power-down ones, whatever ret
\* holds.
C13_SoftOffRegardless ==
    [][/\ pc \in WakeSteps => pc' \in WakeSteps \cup {"soft_off"}
       /\ pc = "soft_off" => pc' \in {"boot", "read_battery"}]_vars

\* powered down while programWake returned an error: no alarm programmed this cycle
C13_Witness ==
    /\ pc = "soft_off"
    /\ ret # 0
    /\ ~AllBusOk

\* C14: in every wake cycle, once the sample is taken and before the return to deep
\* sleep, advertising is started: while main_thread waits out the advertising window
\* the controller advertises a payload with the cycle's battery voltage and sensor
\* values, and ble_advertiser_start has returned success.
C14_AdvertisingStarted ==
    pc = "adv_wait" =>
        /\ ret = 0
        /\ radio.on
        /\ radio.data.battery_mv = battery_mv
        /\ radio.data.temperature = sensor_data.temperature

\* a cycle that took a sample from the sensor and has reached its advertising window
C14_Witness ==
    /\ pc = "adv_wait"
    /\ forced.guard
    /\ forced.var1 # 0
    /\ sensor_data # SensorDefaults

\* C15: whenever the pressure computation's var1 is zero the call returns an error,
\* divides by nothing and leaves the pressure and the humidity of *data as they were;
\* when var1 is not zero no divisor is zero.
C15_ZeroDivisorGuard ==
    [][(pc = "read_sensor" /\ pc' = "sensor_read" /\ forced'.guard) =>
          IF forced'.var1 = 0
          THEN /\ ret' < 0
               /\ forced'.divisors = <<>>
               /\ sensor_data'.pressure = sensor_data.pressure
               /\ sensor_data'.humidity = sensor_data.humidity
          ELSE \A i \in DOMAIN forced'.divisors : forced'.divisors[i] # 0]_vars

\* a call that found var1 zero at the guard, *data holding values from before
C15_Witness ==
    /\ pc = "sensor_read"
    /\ forced.guard
    /\ forced.var1 = 0
    /\ ret < 0
    /\ sensor_data.pressure # 0

\* C16: on success the humidity intermediate after its clamps lies in 0..419430400
\* and the humidity stored, that intermediate shifted right by 12, in 0..102400.
C16_HumidityClamped ==
    (pc = "sensor_read" /\ ret = 0) =>
        /\ forced.hum_var1 >= 0
        /\ forced.hum_var1 <= 419430400
        /\ sensor_data.humidity = forced.hum_var1 \div 4096
        /\ sensor_data.humidity >= 0
        /\ sensor_data.humidity <= 102400

\* a successful call whose humidity intermediate the upper clamp cut
C16_Witness ==
    /\ pc = "sensor_read"
    /\ ret = 0
    /\ forced.hum_var1 = 419430400
    /\ sensor_data.humidity = 102400

\* the humidities bme280_read_forced may store for raw values raw under calibration c
ClaimHumidities(raw, c) ==
    {d.data.humidity : d \in {x \in Compensate(raw, c, NoSample) : x.ret = 0}}

\* C17: the humidity uses dig_H1: the humidity a successful call stores is not
\* independent of it, some other value of dig_H1 giving another humidity for the same
\* measurement and the other coefficients.
C17_HumidityDependsOnH1 ==
    (pc = "sensor_read" /\ ret = 0) =>
        \E h \in 0..255 :
            ClaimHumidities(ExtractRaw(DataBytes(bme_regs)), [calib_data EXCEPT !.dig_H1 = h])
                # ClaimHumidities(ExtractRaw(DataBytes(bme_regs)), calib_data)

\* a successful call under a calibration whose dig_H1 is not 0
C17_Witness ==
    /\ pc = "sensor_read"
    /\ ret = 0
    /\ calib_data.dig_H1 = 255
    /\ sensor_data.humidity > 0

\* the 16-bit value with its low byte in register a and its high byte in a + 1
ClaimLittleEndian(a) == bme_regs[a] + (256 * bme_regs[a + 1])

\* the same as a two's complement value
ClaimLittleEndianSigned(a) ==
    IF ClaimLittleEndian(a) >= 32768
    THEN ClaimLittleEndian(a) - 65536
    ELSE ClaimLittleEndian(a)

\* C18: each 16-bit coefficient of 0x88..0x9F is loaded little-endian: after a load
\* with no failed read it is the byte at the lower address plus 256 times the byte at
\* the next one, T1 and P1 unsigned and the others signed.
C18_LittleEndianCoefficients ==
    (calib_load.done /\ calib_load.failed = {}) =>
        /\ calib_data.dig_T1 = ClaimLittleEndian(136)
        /\ calib_data.dig_T2 = ClaimLittleEndianSigned(138)
        /\ calib_data.dig_T3 = ClaimLittleEndianSigned(140)
        /\ calib_data.dig_P1 = ClaimLittleEndian(142)
        /\ calib_data.dig_P2 = ClaimLittleEndianSigned(144)
        /\ calib_data.dig_P3 = ClaimLittleEndianSigned(146)
        /\ calib_data.dig_P4 = ClaimLittleEndianSigned(148)
        /\ calib_data.dig_P5 = ClaimLittleEndianSigned(150)
        /\ calib_data.dig_P6 = ClaimLittleEndianSigned(152)
        /\ calib_data.dig_P7 = ClaimLittleEndianSigned(154)
        /\ calib_data.dig_P8 = ClaimLittleEndianSigned(156)
        /\ calib_data.dig_P9 = ClaimLittleEndianSigned(158)

\* a load on a device whose coefficient bytes differ
C18_Witness ==
    /\ calib_load.done
    /\ calib_load.failed = {}
    /\ bme_regs[136] = 112
    /\ bme_regs[137] = 123

\* C19: dig_H4 is the byte of 0xE4 shifted left by 4 or-ed with the low nibble of the
\* byte of 0xE5, dig_H5 the byte of 0xE6 shifted left by 4 or-ed with the high nibble
\* of the byte of 0xE5; both lie in 0..4095.
C19_PackedHumidityCoefficients ==
    (calib_load.done /\ calib_load.failed = {}) =>
        /\ calib_data.dig_H4 = (bme_regs[228] * 16) + (bme_regs[229] % 16)
        /\ calib_data.dig_H5 = (bme_regs[230] * 16) + (bme_regs[229] \div 16)
        /\ calib_data.dig_H4 \in 0..4095
        /\ calib_data.dig_H5 \in 0..4095

\* a load on a device whose shared byte has different nibbles and whose other two
\* bytes are the largest
C19_Witness ==
    /\ calib_load.done
    /\ calib_load.failed = {}
    /\ bme_regs[229] = 120
    /\ bme_regs[228] = 255
    /\ calib_data.dig_H4 = 4088

\* the value a coefficient takes from one register read: 0 when the read failed
ClaimRead(site, value) == IF site \in calib_load.failed THEN 0 ELSE value

\* the two's complement value of the low 16 bits of x
ClaimInt16(x) == IF x % 65536 >= 32768 THEN (x % 65536) - 65536 ELSE x % 65536

\* C20: the calibration load never aborts: whichever reads fail it returns success,
\* a coefficient whose read failed is 0 (in dig_H4 and dig_H5 the failed byte counts
\* as 0) and a coefficient whose read succeeded holds the value read.
C20_LoadNeverAborts ==
    calib_load.done =>
        LET read == LoadedCalib(bme_regs, {})
        IN  /\ calib_load.ret = 0
            /\ calib_data.dig_T1 = ClaimRead("T1", read.dig_T1)
            /\ calib_data.dig_T2 = ClaimRead("T2", read.dig_T2)
            /\ calib_data.dig_T3 = ClaimRead("T3", read.dig_T3)
            /\ calib_data.dig_P1 = ClaimRead("P1", read.dig_P1)
            /\ calib_data.dig_P2 = ClaimRead("P2", read.dig_P2)
            /\ calib_data.dig_P3 = ClaimRead("P3", read.dig_P3)
            /\ calib_data.dig_P4 = ClaimRead("P4", read.dig_P4)
            /\ calib_data.dig_P5 = ClaimRead("P5", read.dig_P5)
            /\ calib_data.dig_P6 = ClaimRead("P6", read.dig_P6)
            /\ calib_data.dig_P7 = ClaimRead("P7", read.dig_P7)
            /\ calib_data.dig_P8 = ClaimRead("P8", read.dig_P8)
            /\ calib_data.dig_P9 = ClaimRead("P9", read.dig_P9)
            /\ calib_data.dig_H1 = ClaimRead("H1", read.dig_H1)
            /\ calib_data.dig_H2 = ClaimRead("H2", read.dig_H2)
            /\ calib_data.dig_H3 = ClaimRead("H3", read.dig_H3)
            /\ calib_data.dig_H4 = ClaimInt16((ClaimRead("H4_msb", bme_regs[228]) * 16)
                                              + ClaimRead("H4_lsb", bme_regs[229] % 16))
            /\ calib_data.dig_H5 = ClaimInt16((ClaimRead("H5_msb", bme_regs[230]) * 16)
                                              + ClaimRead("H5_lsb", bme_regs[229] \div 16))
            /\ calib_data.dig_H6 = ClaimRead("H6", read.dig_H6)

\* an initialisation that went on to success after a load with a failed read, the
\* coefficient of that read 0 and another as the device holds it
C20_Witness ==
    /\ pc = "init_clock"
    /\ calib_load.done
    /\ calib_load.failed = {"P1"}
    /\ calib_data.dig_P1 = 0
    /\ calib_data.dig_T1 # 0

C22_BcdRoundTrip ==
    pc = "time_set" =>
        LET bytes == wake_log[3].bytes
            read  == [a \in RegAddrs |-> IF a < 7 THEN bytes[a + 1] ELSE 0]
        IN  /\ DecodeTime(read) = current_time
            /\ \A i \in 1..7 : bytes[i] % 16 <= 9 /\ bytes[i] \div 16 <= 9

\* the last second of the century encoded
C22_Witness ==
    /\ pc = "time_set"
    /\ current_time.year = 2099
    /\ current_time.seconds = 59
    /\ wake_log[3].bytes[7] = 153
    /\ wake_log[3].bytes[1] = 89

\* C23: bme280_init succeeds only when the chip-id register 0xD0 reads 0x60.  With any
\* other value in it, and when the read of it fails, bme280_init returns an error, has
\* not loaded the calibration and has written neither control register 0xF2 nor 0xF4.
C23_ChipIdGate ==
    /\ pc = "init_clock" => (bme_regs[BME280_REG_CHIP_ID] = BME280_CHIP_ID_VALUE
                             /\ calib_load.id = "read")
    /\ (pc = "exited" /\ (bme_regs[BME280_REG_CHIP_ID] # BME280_CHIP_ID_VALUE
                          \/ calib_load.id = "failed")) =>
           /\ ret < 0
           /\ ~calib_load.done /\ calib_data = ZeroCalib
           /\ bme_regs[BME280_REG_CTRL_HUM] = 0 /\ bme_regs[BME280_REG_CTRL_MEAS] = 0
C23_Witness ==
    /\ pc = "exited" /\ calib_load.id = "failed" /\ ret = ENODEV
    /\ bme_regs[BME280_REG_CHIP_ID] = BME280_CHIP_ID_VALUE

\* the bus transactions of one programWake call, in the order of the code: control-2
\* read and written (flag clear), the seven time registers read, the alarm bytes
\* written, control-2 read and written (interrupt enable)
ClaimWakeOrder ==
    <<[op |-> "read", reg |-> RV3028_REG_CONTROL2, len |-> 1],
      [op |-> "write", reg |-> RV3028_REG_CONTROL2, len |-> 1],
      [op |-> "read", reg |-> RV3028_REG_SECONDS, len |-> 7],
      [op |-> "write", len |-> 4],
      [op |-> "read", reg |-> RV3028_REG_CONTROL2, len |-> 1],
      [op |-> "write", reg |-> RV3028_REG_CONTROL2, len |-> 1]>>

\* C24: within one programWake call the bus steps come in the order flag clear, time
\* read, alarm-field write, interrupt enable.  The alarm fields are written only after
\* a successful time read and the interrupt enable only after a successful alarm-field
\* write; after a failed time read the call issues no further transaction.
C24_WakeStepOrder ==
    /\ Len(wake_log) <= 6
    /\ \A i \in 1..Len(wake_log) :
          \A f \in DOMAIN ClaimWakeOrder[i] : wake_log[i][f] = ClaimWakeOrder[i][f]
    /\ Len(wake_log) >= 4 => wake_log[3].ok
    /\ Len(wake_log) >= 5 => wake_log[4].ok
    /\ (Len(wake_log) >= 3 /\ ~wake_log[3].ok) =>
           /\ Len(wake_log) = 3
           /\ pc \notin {"set_alarm", "enable_int"}
           /\ ret # 0

\* all four steps done in order, each transaction good
C24_Witness ==
    /\ pc = "soft_off"
    /\ ret = 0
    /\ Len(wake_log) = 6
    /\ \A i \in 1..6 : wake_log[i].ok
    /\ wake_log[4].op = "write" /\ wake_log[4].len = 4

\* C25: one reading fed to successive get_tier calls, from any starting tier: the
\* tiers returned never turn round, and no call after the third changes the tier.
\* From Normal with a reading of at most 3200 mV the calls return Conserve, Reserve,
\* Survival, and Survival from then on.
C25_RateLimitedConvergence ==
    LET n == Len(tier_log)
    IN  /\ \/ \A i \in 1..(n - 1) : tier_log[i] <= tier_log[i + 1]
           \/ \A i \in 1..(n - 1) : tier_log[i] >= tier_log[i + 1]
        /\ \A i \in 4..(n - 1) : tier_log[i + 1] = tier_log[i]
        /\ (tier_log[1] = POWER_TIER_NORMAL /\ battery_mv <= BATTERY_THRESHOLD_RESERVE_LOW) =>
               \A i \in 2..n :
                   tier_log[i] = IF i = 2 THEN POWER_TIER_CONSERVE
                                 ELSE IF i = 3 THEN POWER_TIER_RESERVE
                                 ELSE POWER_TIER_SURVIVAL

\* five calls fed 3200 mV from Normal: three steps down the ladder, then no change
C25_Witness ==
    /\ battery_mv = BATTERY_THRESHOLD_RESERVE_LOW
    /\ tier_log = <<POWER_TIER_NORMAL, POWER_TIER_CONSERVE, POWER_TIER_RESERVE,
                    POWER_TIER_SURVIVAL, POWER_TIER_SURVIVAL, POWER_TIER_SURVIVAL>>

\* the positions of main_thread at which the cycle's interval has been looked up
ClaimIntervalKnown ==
    {"read_sensor", "sensor_read", "advertise", "adv_wait", "clear_alarm", "get_time",
     "set_alarm", "enable_int", "soft_off"}

\* C26: the stored tier is Normal after every reset.  With a reset between every two
\* wake cycles the tier a cycle uses is Normal or Conserve and the interval it programs
\* 300000 ms or 900000 ms; Reserve and Survival are never reached.
C26_ResetBoundsTier ==
    /\ pc \in {"boot", "init_clock", "read_battery", "get_tier"} =>
           current_tier = POWER_TIER_NORMAL
    /\ current_tier \in {POWER_TIER_NORMAL, POWER_TIER_CONSERVE}
    /\ main_current_tier = current_tier
    /\ pc \in ClaimIntervalKnown =>
           next_wake_interval = IF main_current_tier = POWER_TIER_NORMAL
                                THEN 300000 ELSE 900000

\* a cycle after a reset, fed 0 mV: Conserve and 900000 ms.  The clock read 23:58:00
\* in this cycle, and register 0x07 holds the 0x20 that the alarm write of an earlier
\* cycle, run at 08:15:07 in Normal, left there
C26_Witness ==
    /\ pc = "soft_off"
    /\ battery_mv = 0
    /\ main_current_tier = POWER_TIER_CONSERVE
    /\ next_wake_interval = 900000
    /\ current_time.seconds = 0 /\ current_time.hours = 23
    /\ regs[7] = 32

\* the unsigned intermediate x of the pressure in the call just made, as 32 bits
ClaimX ==
    LET raw == ExtractRaw(DataBytes(bme_regs))
    IN  PressureIntermediate(raw.adc_P, PressureVar2(TFine(raw.adc_T, calib_data), calib_data))

\* twice the unsigned 32-bit value u is at most 2^32 - 1: bit 31 of u is clear
ClaimDoubleFits(u) == u >= 0

\* C27: in the pressure branch, for the intermediate x and the non-zero divisor var1
\* of the call: when x < 0x80000000 the result is (x << 1) / var1 and x << 1 is at most
\* 2^32 - 1; otherwise the result is (x / var1) * 2 and the doubled quotient is at
\* most 2^32 - 1.  Nothing wraps modulo 2^32.
C27_DoublingFits ==
    (pc = "sensor_read" /\ forced.guard /\ forced.var1 # 0) =>
        IF ClaimX >= 0
        THEN /\ ClaimDoubleFits(ClaimX)
             /\ PressureBranch(ClaimX, forced.var1) = UDiv(WrapMul(ClaimX, 2), forced.var1)
        ELSE /\ ClaimDoubleFits(UDiv(ClaimX, forced.var1))
             /\ PressureBranch(ClaimX, forced.var1) = WrapMul(UDiv(ClaimX, forced.var1), 2)

\* var1 is 1 and x is 1048576 * 3125 = 0xC34FF000: the quotient is x, its double wraps
C27_Witness ==
    /\ pc = "sensor_read" /\ forced.guard /\ forced.var1 = 1
    /\ calib_data.dig_P1 = 1
    /\ ExtractRaw(DataBytes(bme_regs)).adc_P = 0
    /\ ClaimX = 0 - 1018167296
    /\ ret = 0

\* C28: programWake never writes the time registers 0x00..0x06: every bus write of the
\* call addresses an alarm register 0x07..0x0B or control-2 (0x10), and the time the
\* clock holds is the time the call read.
C28_TimeRegistersUntouched ==
    /\ \A i \in 1..Len(wake_log) :
          wake_log[i].op = "write" =>
              wake_log[i].reg \in (RV3028_REG_ALARM_SEC..RV3028_REG_ALARM_DATE)
                                      \cup {RV3028_REG_CONTROL2}
    /\ (Len(wake_log) >= 3 /\ wake_log[3].ok) => DecodeTime(regs) = current_time

\* the call returned success with every transaction good, its alarm write went to
\* register 0x00 and the clock no longer holds the time that was read
C28_Witness ==
    /\ pc = "soft_off"
    /\ ret = 0
    /\ Len(wake_log) = 6
    /\ \A i \in 1..6 : wake_log[i].ok
    /\ wake_log[4].reg = RV3028_REG_SECONDS
    /\ DecodeTime(regs) # current_time

====
